---------------------------- MODULE Spec2Model ----------------------------
(***************************************************************************)
(* Forge platform: webhook delivery engine (retries, per-URL circuit       *)
(* breaker), request processor (response pump, delivery records) and pod   *)
(* lifecycle (WaitForPodReady, CreateAgent, DeleteAgent, RestartPod).      *)
(*                                                                         *)
(* The specifications share the module, one per component:                 *)
(*   SpecDeliver  concurrent DeliveryService.Deliver calls and the clock   *)
(*   SpecRetry    one Deliver call with the retry cap in reach             *)
(*   SpecPump     HTTP handlers, background processor calls, the pump and  *)
(*                the delivery store                                       *)
(*   SpecK8s      the cluster, WatchPod, WaitForPodReady and CreateAgent   *)
(*   SpecDelete   the cluster and DeleteAgent                              *)
(*   SpecWatch    the cluster, RestartPod and the goroutine of WatchPod    *)
(*   SpecSign     one Deliver call with a webhook secret                   *)
(*   SpecConvert  one request over every kind of agent response            *)
(*   SpecLock     concurrent Deliver calls with the steps of circuitMu     *)
(*   SpecName     pods of the namespace addressed by PodID.Name            *)
(*   SpecLive     the pump of one call with its Deliver calls, under       *)
(*                fairness                                                 *)
(***************************************************************************)
EXTENDS Integers, Sequences, FiniteSets, TLC

Min(a, b) == IF a < b THEN a ELSE b

(***************************************************************************)
(* Bounds of the model.                                                    *)
(***************************************************************************)
MaxCalls == 2
MaxRetriesCfg == 2
MaxThresholdCfg == 2
MaxTime == 64
MaxEvents == 2
MaxSeq == 1
MaxPodChanges == 4
MaxContainers == 1
MaxWaitCalls == 2
MaxRetryTime == 200
MaxSignTime == 40
MaxWatchResults == 2
MaxLockTime == 2
MaxIDLen == 2
MaxNamedPods == 2
MaxLiveEvents == 1

(***************************************************************************)
(* Program constants.                                                      *)
(***************************************************************************)
\* RetryDelays, in seconds
RetryDelays == <<0, 1, 5, 30, 60>>
\* WEBHOOK_CIRCUIT_TIMEOUT default, in seconds
WebhookCircuitTimeout == 60
\* time.Time{}: the zero time, before every clock reading
ZeroTime == 0
\* the clock reading at process start
StartTime == 1
\* WEBHOOK_MAX_RETRIES and WEBHOOK_CIRCUIT_THRESHOLD defaults
DefaultMaxRetries == 5
DefaultCircuitThreshold == 5
\* the timeout of DeleteAgent's Shutdown RPC, in seconds
ShutdownTimeout == 10

\* the goroutines that call Deliver: g1 under a ctx that can be cancelled or time
\* out (DeliverAsync's 2-minute ctx, a caller-supplied ctx), g2 under the
\* handler's context.TODO(), which is never done
Callers == {"g1", "g2"}
Cancellable == {"g1"}
URLs == {"u1", "u2"}
\* HTTP outcomes of one attempt: 0 is a transport error (no response)
Statuses == {0, 200, 400, 500}

VARIABLES
  cfgMaxRetries,   \* cfg.WebhookMaxRetries
  cfgThreshold,    \* cfg.WebhookCircuitThreshold
  now,             \* time.Now(), in seconds
  circuitStates,   \* DeliveryService.circuitStates: url -> circuitState
  dl,              \* one goroutine per caller, inside or between Deliver calls
  ncalls,          \* Deliver calls made so far
  rq,              \* the requests: handler, background goroutine, stream, pump
  store,           \* table webhook_deliveries, keyed by request_id
  inflight,        \* the Deliver calls of the processor that have not returned
  cluster,         \* the cluster: the pod, and the changes made to it so far
  wfr,             \* the WaitForPodReady calls
  da,              \* the DeleteAgent call
  rp               \* the RestartPod call and the goroutine of its WatchPod

engineVars == <<cfgMaxRetries, cfgThreshold, now, circuitStates, dl, ncalls>>
\* the engine without the clock
engineRest == <<cfgMaxRetries, cfgThreshold, circuitStates, dl, ncalls>>
pumpVars == <<rq, store, inflight>>
k8sVars == <<cluster, wfr, da, rp>>
vars == <<cfgMaxRetries, cfgThreshold, now, circuitStates, dl, ncalls, rq, store, inflight,
          cluster, wfr, da, rp>>

NoState == [present |-> FALSE, failures |-> 0, openUntil |-> ZeroTime, lastFailed |-> ZeroTime]

\* webhookCfg.Secret: none, or a key
NoSecret == ""
Secrets == {NoSecret, "k1"}
\* the payloads handed to Deliver, by their event type
NoPayload == "agent.event"
EnginePayloads == {NoPayload, "agent.complete"}
\* no request is on the wire
NoHTTPRequest == [body |-> "", headers |-> <<>>]

\* the locals of a Deliver call; nSent counts the POSTs the call has sent, probe
\* tells that the call found the circuit of its URL opened earlier and timed out,
\* req is the POST that is on the wire, holds how the call holds circuitMu: not
\* ("none"), for reading ("R") or for writing ("W")
IdleCall == [pc |-> "idle", url |-> "u1", attempt |-> 0, nSent |-> 0,
             status |-> -1, ret |-> "none", ctxDone |-> FALSE, wakeAt |-> ZeroTime,
             probe |-> FALSE, secret |-> NoSecret, payload |-> NoPayload,
             req |-> NoHTTPRequest, holds |-> "none"]

\* the engine as NewDeliveryService leaves it
EngineAtRest ==
  /\ now = StartTime
  /\ circuitStates = [u \in URLs |-> NoState]
  /\ dl = [c \in Callers |-> IdleCall]
  /\ ncalls = 0

InitEngine ==
  /\ cfgMaxRetries \in 0..MaxRetriesCfg
  /\ cfgThreshold \in 1..MaxThresholdCfg
  /\ EngineAtRest

(***************************************************************************)
(* Circuit breaker.                                                        *)
(***************************************************************************)
\* mutant: the circuit is never seen open
isCircuitOpen_NeverOpen(url) ==
  /\ circuitStates[url].present
  /\ circuitStates[url].openUntil > now + WebhookCircuitTimeout

isCircuitOpen(url) ==
  /\ circuitStates[url].present
  /\ circuitStates[url].openUntil > now

\* the circuit was opened and its timeout has elapsed
HalfOpen(url) ==
  /\ circuitStates[url].present
  /\ circuitStates[url].openUntil # ZeroTime
  /\ circuitStates[url].openUntil <= now

\* mutant: every failure opens the circuit
recordFailure_OpensAtOnce(url) ==
  LET st == circuitStates[url]
      n == st.failures + 1
  IN [circuitStates EXCEPT ![url] =
        [present |-> TRUE,
         failures |-> n,
         lastFailed |-> now,
         openUntil |-> now + WebhookCircuitTimeout]]

recordFailure(url) ==
  LET st == circuitStates[url]
      n == st.failures + 1
  IN [circuitStates EXCEPT ![url] =
        [present |-> TRUE,
         failures |-> n,
         lastFailed |-> now,
         openUntil |-> IF n >= cfgThreshold THEN now + WebhookCircuitTimeout
                                            ELSE st.openUntil]]

\* mutant: the failure count is reset but the circuit stays open
recordSuccess_KeepOpen(url) ==
  IF circuitStates[url].present
    THEN [circuitStates EXCEPT ![url].failures = 0]
    ELSE circuitStates

\* mutant: a success resets the state of every URL
recordSuccess_ResetsAll(url) ==
  IF circuitStates[url].present
    THEN [u \in URLs |->
            IF circuitStates[u].present
              THEN [circuitStates[u] EXCEPT !.failures = 0, !.openUntil = ZeroTime]
              ELSE circuitStates[u]]
    ELSE circuitStates

recordSuccess(url) ==
  IF circuitStates[url].present
    THEN [circuitStates EXCEPT ![url].failures = 0, ![url].openUntil = ZeroTime]
    ELSE circuitStates

IsSuccess(code) == code >= 200 /\ code < 300

\* mutant: the lower limit of the 4xx range is off by one
IsClientError_OffByOne(code) == code > 400 /\ code < 500

IsClientError(code) == code >= 400 /\ code < 500

\* mutant: the cap leaves out the last retry delay
maxRetries_ShortCap == Min(cfgMaxRetries, Len(RetryDelays) - 1)

maxRetries == Min(cfgMaxRetries, Len(RetryDelays))

(***************************************************************************)
(* deliverOnce: the request of one attempt.                                *)
(***************************************************************************)
\* json.Marshal(payload), of which the event type is followed
Marshal(payload) == "{\"event_type\":\"" \o payload \o "\"}"

\* strconv.FormatInt(n, 10) for n >= 0
Digits == <<"0", "1", "2", "3", "4", "5", "6", "7", "8", "9">>
RECURSIVE FormatInt(_)
FormatInt(n) ==
  IF n < 10 THEN Digits[n + 1]
  ELSE FormatInt(n \div 10) \o Digits[(n % 10) + 1]

\* hex.EncodeToString of the HMAC-SHA256 of msg under key: a digest is told by
\* the key and the message it was computed from
HexHmacSha256(key, msg) == "hmac<" \o key \o "|" \o msg \o ">"

\* mutant: the timestamp is left out of what is signed
computeSignature_BodyOnly(timestamp, body, secret) == HexHmacSha256(secret, body)

\* the three Writes are one message
computeSignature(timestamp, body, secret) ==
  HexHmacSha256(secret, timestamp \o "." \o body)

\* the POST deliverOnce builds at clock reading t
BuildRequest(secret, payload, t) ==
  LET body == Marshal(payload)
      common == ("Content-Type" :> "application/json")
                  @@ ("User-Agent" :> "Forge-Platform/1.0")
      timestamp == FormatInt(t)
  IN [body |-> body,
      headers |->
        IF secret # NoSecret
          THEN common @@ ("X-Forge-Signature" :>
                             "sha256=" \o computeSignature(timestamp, body, secret))
                      @@ ("X-Forge-Timestamp" :> timestamp)
          ELSE common]

(***************************************************************************)
(* DeliveryService.Deliver, one action per step between two points where  *)
(* another goroutine can run.                                              *)
(***************************************************************************)
\* a call after isCircuitOpen has returned: Deliver returns, or its loop starts
\* (or not)
Checked(call) ==
  [call EXCEPT
     !.pc = IF isCircuitOpen(call.url) \/ maxRetries = 0 THEN "done" ELSE "send",
     !.probe = HalfOpen(call.url) /\ maxRetries > 0,
     !.ret = IF isCircuitOpen(call.url) THEN "circuit_open"
             ELSE IF maxRetries = 0 THEN "exhausted" ELSE "none",
     !.holds = "none"]

\* Deliver is called: the circuit check, then the loop starts (or not)
DeliverCall(c, u, secret, payload) ==
  /\ dl[c].pc \in {"idle", "done"}
  /\ ncalls < MaxCalls
  /\ ncalls' = ncalls + 1
  /\ dl' = [dl EXCEPT ![c] =
       Checked([IdleCall EXCEPT !.url = u, !.secret = secret, !.payload = payload])]
  /\ UNCHANGED <<cfgMaxRetries, cfgThreshold, now, circuitStates>>
  /\ UNCHANGED <<pumpVars, k8sVars>>

\* the loop body up to the POST: for a retry the select on ctx.Done() and
\* time.After(delay) has chosen the timer; deliverOnce sends the POST, but a
\* request whose ctx is already done is not sent and fails at once
AttemptStart(c) ==
  /\ \/ dl[c].pc = "send"
     \/ dl[c].pc = "sleep" /\ now >= dl[c].wakeAt
  /\ dl' = [dl EXCEPT ![c] =
       IF dl[c].ctxDone
         THEN [@ EXCEPT !.pc = "record", !.status = 0, !.wakeAt = ZeroTime]
         ELSE [@ EXCEPT !.pc = "http", !.nSent = @ + 1, !.wakeAt = ZeroTime,
                        !.req = BuildRequest(dl[c].secret, dl[c].payload, now)]]
  /\ UNCHANGED <<cfgMaxRetries, cfgThreshold, now, circuitStates, ncalls>>
  /\ UNCHANGED <<pumpVars, k8sVars>>

\* client.Do returns: a response with a status code, or an error
AttemptReturn(c, code) ==
  /\ dl[c].pc = "http"
  /\ dl[c].ctxDone => code = 0
  /\ dl' = [dl EXCEPT ![c].pc = "record", ![c].status = code,
                       ![c].req = NoHTTPRequest]
  /\ UNCHANGED <<cfgMaxRetries, cfgThreshold, now, circuitStates, ncalls>>
  /\ UNCHANGED <<pumpVars, k8sVars>>

\* a return: the call's locals and its ctx are gone, its result and its count stay
Return(call, r) == [IdleCall EXCEPT !.pc = "done", !.url = call.url, !.nSent = call.nSent,
                                    !.ret = r]

\* recordSuccess or recordFailure, and what the loop does after it: return, or go
\* on to the wait before the next attempt, holding circuitMu as given
Recorded(c, held) ==
  LET u == dl[c].url
      code == dl[c].status
      next == dl[c].attempt + 1
  IN IF IsSuccess(code)
       THEN /\ circuitStates' = recordSuccess(u)
            /\ dl' = [dl EXCEPT ![c] = Return(@, "nil")]
       ELSE /\ circuitStates' = recordFailure(u)
            /\ dl' = [dl EXCEPT ![c] =
                 IF IsClientError(code)
                   THEN Return(@, "client_error")
                 ELSE IF next < maxRetries
                   THEN [@ EXCEPT !.pc = "sleep", !.attempt = next, !.status = -1,
                                  !.wakeAt = now + RetryDelays[next + 1],
                                  !.holds = held]
                   ELSE Return(@, "exhausted")]

\* the result is recorded and the loop returns, or goes on to the next attempt
RecordResult(c) ==
  /\ dl[c].pc = "record"
  /\ Recorded(c, "none")
  /\ UNCHANGED <<cfgMaxRetries, cfgThreshold, now, ncalls>>
  /\ UNCHANGED <<pumpVars, k8sVars>>

\* mutant: the ctx error is recorded as one more failure of the URL
SleepCtxDone_RecordsFailure(c) ==
  /\ dl[c].pc = "sleep"
  /\ dl[c].ctxDone
  /\ dl' = [dl EXCEPT ![c] = Return(@, "ctx_error")]
  /\ circuitStates' = recordFailure(dl[c].url)
  /\ UNCHANGED <<cfgMaxRetries, cfgThreshold, now, ncalls>>
  /\ UNCHANGED <<pumpVars, k8sVars>>

\* select: ctx.Done() fires
SleepCtxDone(c) ==
  /\ dl[c].pc = "sleep"
  /\ dl[c].ctxDone
  /\ dl' = [dl EXCEPT ![c] = Return(@, "ctx_error")]
  /\ UNCHANGED <<cfgMaxRetries, cfgThreshold, now, circuitStates, ncalls>>
  /\ UNCHANGED <<pumpVars, k8sVars>>

\* the caller's ctx is cancelled or its deadline passes
CancelCtx(c) ==
  /\ dl[c].pc \in {"send", "http", "record", "sleep"}
  /\ c \in Cancellable
  /\ ~dl[c].ctxDone
  /\ dl' = [dl EXCEPT ![c].ctxDone = TRUE]
  /\ UNCHANGED <<cfgMaxRetries, cfgThreshold, now, circuitStates, ncalls>>
  /\ UNCHANGED <<pumpVars, k8sVars>>

\* the clock advances to the next instant at which something can change; a
\* call blocked in the select whose ctx is done before its timer has fired is
\* woken by ctx.Done(), so its timer does not fire before it has returned
WakeTimes == {dl[c].wakeAt : c \in {d \in Callers : dl[d].pc = "sleep"}}
OpenTimes == {circuitStates[u].openUntil : u \in URLs}
WokenByCtx(c) == dl[c].pc = "sleep" /\ dl[c].ctxDone /\ now < dl[c].wakeAt
ClockAdvances(horizon) ==
  /\ \E t \in WakeTimes \cup OpenTimes :
       /\ t > now
       /\ t <= horizon
       /\ \A c \in Callers : WokenByCtx(c) => t < dl[c].wakeAt
       /\ now' = t
  /\ UNCHANGED <<cfgMaxRetries, cfgThreshold, circuitStates, dl, ncalls>>
  /\ UNCHANGED <<pumpVars, k8sVars>>

TimePasses == ClockAdvances(MaxTime)
\* the same over a horizon that holds every delay of RetryDelays
RetryTimePasses == ClockAdvances(MaxRetryTime)

NextDeliver ==
  \/ \E c \in Callers, u \in URLs : DeliverCall(c, u, NoSecret, NoPayload)
  \/ \E c \in Callers : AttemptStart(c)
  \/ \E c \in Callers, code \in Statuses : AttemptReturn(c, code)
  \/ \E c \in Callers : RecordResult(c)
  \/ \E c \in Callers : SleepCtxDone(c)
  \/ \E c \in Callers : CancelCtx(c)
  \/ TimePasses

\* the engine with every retry delay in reach, for one caller
NextRetry ==
  \/ \E c \in Cancellable, u \in URLs : DeliverCall(c, u, NoSecret, NoPayload)
  \/ \E c \in Cancellable : AttemptStart(c)
  \/ \E c \in Cancellable, code \in Statuses : AttemptReturn(c, code)
  \/ \E c \in Cancellable : RecordResult(c)
  \/ \E c \in Cancellable : SleepCtxDone(c)
  \/ \E c \in Cancellable : CancelCtx(c)
  \/ RetryTimePasses

\* the same over a horizon that holds the first retry delays
SignTimePasses == ClockAdvances(MaxSignTime)

\* one caller that passes a secret or none, and one of the payloads
NextSign ==
  \/ \E c \in Cancellable, u \in URLs, secret \in Secrets, payload \in EnginePayloads :
       DeliverCall(c, u, secret, payload)
  \/ \E c \in Cancellable : AttemptStart(c)
  \/ \E c \in Cancellable, code \in Statuses : AttemptReturn(c, code)
  \/ \E c \in Cancellable : RecordResult(c)
  \/ \E c \in Cancellable : SleepCtxDone(c)
  \/ \E c \in Cancellable : CancelCtx(c)
  \/ SignTimePasses

(***************************************************************************)
(* Deliver with the steps of circuitMu apart: a call asks for the lock,    *)
(* gets it when the sync.RWMutex allows it, and gives it back when the     *)
(* function that took it returns (defer).                                  *)
(***************************************************************************)
LockStatuses == {200, 500}

\* Deliver is called and goes to isCircuitOpen's RLock
DeliverEnters(c, u) ==
  /\ dl[c].pc \in {"idle", "done"}
  /\ ncalls < MaxCalls
  /\ ncalls' = ncalls + 1
  /\ dl' = [dl EXCEPT ![c] = [IdleCall EXCEPT !.url = u, !.pc = "check"]]
  /\ UNCHANGED <<cfgMaxRetries, cfgThreshold, now, circuitStates>>
  /\ UNCHANGED <<pumpVars, k8sVars>>

\* circuitMu.RLock() returns: no other call holds the lock for writing
RLock(c) ==
  /\ dl[c].pc = "check"
  /\ \A d \in Callers \ {c} : dl[d].holds # "W"
  /\ dl' = [dl EXCEPT ![c].pc = "rlocked", ![c].holds = "R"]
  /\ UNCHANGED <<cfgMaxRetries, cfgThreshold, now, circuitStates, ncalls>>
  /\ UNCHANGED <<pumpVars, k8sVars>>

\* isCircuitOpen reads the state and returns, with its deferred RUnlock
CheckReturns(c) ==
  /\ dl[c].pc = "rlocked"
  /\ dl' = [dl EXCEPT ![c] = Checked(@)]
  /\ UNCHANGED <<cfgMaxRetries, cfgThreshold, now, circuitStates, ncalls>>
  /\ UNCHANGED <<pumpVars, k8sVars>>

\* circuitMu.Lock() of recordSuccess / recordFailure returns: no other call holds
\* the lock
Lock(c) ==
  /\ dl[c].pc = "record"
  /\ \A d \in Callers \ {c} : dl[d].holds = "none"
  /\ dl' = [dl EXCEPT ![c].pc = "locked", ![c].holds = "W"]
  /\ UNCHANGED <<cfgMaxRetries, cfgThreshold, now, circuitStates, ncalls>>
  /\ UNCHANGED <<pumpVars, k8sVars>>

\* mutant: the lock is given back only when Deliver returns
RecordReturns_LateUnlock(c) ==
  /\ dl[c].pc = "locked"
  /\ Recorded(c, "W")
  /\ UNCHANGED <<cfgMaxRetries, cfgThreshold, now, ncalls>>
  /\ UNCHANGED <<pumpVars, k8sVars>>

\* recordSuccess / recordFailure update the state and return, with their
\* deferred Unlock
RecordReturns(c) ==
  /\ dl[c].pc = "locked"
  /\ Recorded(c, "none")
  /\ UNCHANGED <<cfgMaxRetries, cfgThreshold, now, ncalls>>
  /\ UNCHANGED <<pumpVars, k8sVars>>

\* a horizon that holds the first retry delay
LockTimePasses == ClockAdvances(MaxLockTime)

NextLock ==
  \/ \E c \in Callers, u \in URLs : DeliverEnters(c, u)
  \/ \E c \in Callers : RLock(c)
  \/ \E c \in Callers : CheckReturns(c)
  \/ \E c \in Callers : AttemptStart(c)
  \/ \E c \in Callers, code \in LockStatuses : AttemptReturn(c, code)
  \/ \E c \in Callers : Lock(c)
  \/ \E c \in Callers : RecordReturns(c)
  \/ \E c \in Callers : SleepCtxDone(c)
  \/ \E c \in Callers : CancelCtx(c)
  \/ LockTimePasses

(***************************************************************************)
(* Request processor, HTTP command surface and delivery store.             *)
(***************************************************************************)
Reqs == {"r1", "r2"}
\* r1 can also be a direct call of the processor under a ctx of the caller's
DirectCalls == {"r1"}
\* request ids: supplied by the client, or generated ("req_" + 16 hex digits)
ClientRIDs == {"a"}
generateRequestID(r) == IF r = "r1" THEN "req_1" ELSE "req_2"
RIDs == ClientRIDs \cup {generateRequestID(r) : r \in Reqs}

\* what the agent stream can carry: AgentResponse.seq and the payload oneof
PumpEventTypes == {"message.part.updated", "session.completed"}
Responses ==
  [seq : 0..MaxSeq, payload : {"event"}, eventType : PumpEventTypes]
    \cup [seq : 0..MaxSeq, payload : {"error", "complete", "none"}, eventType : {""}]

\* the responses the modelled agent streams send: a response with no payload is
\* left to AgentResponseToPayload, which turns it into a final agent.error as it
\* does an Error payload
StreamResponses == {resp \in Responses : resp.payload # "none"}

\* every kind of response an agent stream can carry: the completion event types,
\* other event types, an event without type, and a response without payload
AllEventTypes ==
  {"session.completed", "session.error", "message.completed",
   "message.part.updated", "session.idle", ""}
AllResponses ==
  [seq : 0..MaxSeq, payload : {"event"}, eventType : AllEventTypes]
    \cup [seq : 0..MaxSeq, payload : {"error", "complete", "none"}, eventType : {""}]

\* mutant: message.completed is not a completion event type
isCompletionEventType_SessionOnly(eventType) ==
  eventType \in {"session.completed", "session.error"}

isCompletionEventType(eventType) ==
  eventType \in {"session.completed", "session.error", "message.completed"}

\* webhook.Payload, the fields the processor reads
AgentResponseToPayload(resp) ==
  CASE resp.payload = "event" ->
         [eventType |-> "agent.event", seq |-> resp.seq, code |-> "",
          isFinal |-> isCompletionEventType(resp.eventType)]
    [] resp.payload = "error" ->
         [eventType |-> "agent.error", seq |-> resp.seq, code |-> "AGENT", isFinal |-> TRUE]
    [] resp.payload = "complete" ->
         [eventType |-> "agent.complete", seq |-> resp.seq, code |-> "", isFinal |-> TRUE]
    [] OTHER ->
         [eventType |-> "agent.error", seq |-> resp.seq, code |-> "UNKNOWN_PAYLOAD",
          isFinal |-> TRUE]

ErrorToPayload(seq, errorCode) ==
  [eventType |-> "agent.error", seq |-> seq, code |-> errorCode, isFinal |-> TRUE]

\* the rows of webhook_deliveries
NoRow == [present |-> FALSE, status |-> "", seq |-> 0, lastEventType |-> ""]

\* mutant: request_id without the UNIQUE constraint
UniqueViolation_None(rid) == FALSE

\* the table's UNIQUE(request_id): a row with this request id is there
UniqueViolation(rid) == store[rid].present

\* INSERT: fails on UNIQUE(request_id)
CreateWebhookDelivery(rid) ==
  IF UniqueViolation(rid)
    THEN store
    ELSE [store EXCEPT ![rid] =
            [present |-> TRUE, status |-> "pending", seq |-> 0, lastEventType |-> ""]]

\* the UPDATEs change the row WHERE request_id = $1, if there is one; a query
\* run under a ctx that is done fails and changes nothing
UpdateDeliverySeq(r, rid, seq, eventType) ==
  IF store[rid].present /\ ~rq[r].ctxDone
    THEN [store EXCEPT ![rid].seq = seq, ![rid].lastEventType = eventType]
    ELSE store

MarkDeliveryCompleted(r, rid) ==
  IF store[rid].present /\ ~rq[r].ctxDone
    THEN [store EXCEPT ![rid].status = "completed"]
    ELSE store

MarkDeliveryFailed(r, rid) ==
  IF store[rid].present /\ ~rq[r].ctxDone
    THEN [store EXCEPT ![rid].status = "failed"]
    ELSE store

\* a request before it is made; kind is the command still to be sent, created
\* counts the rows its insert created, nReq the AgentRequests sent, recv the
\* responses received from the stream, handed the payloads handed to Deliver by
\* the pump, async those handed to DeliverAsync, lastRet what the pump's last
\* Deliver call returned
NoRequest == [pc |-> "none", kind |-> "", rid |-> "", resp |-> 0, cancellable |-> FALSE,
              ctxDone |-> FALSE, created |-> 0, nReq |-> 0, closed |-> FALSE,
              recv |-> <<>>, handed |-> <<>>, async |-> <<>>, ret |-> "none",
              lastRet |-> "none"]

PumpAtRest ==
  /\ rq = [r \in Reqs |-> NoRequest]
  /\ store = [id \in RIDs |-> NoRow]
  /\ inflight = {}

\* mutant: the goroutine runs on the request's ctx, which is done once the
\* handler has answered
PostRequest_RequestCtx(r, kind, userID, content, webhookURL, requestID) ==
  /\ rq[r].pc = "none"
  /\ rq' = [rq EXCEPT ![r] =
       IF userID = "" \/ (kind = "message" /\ content = "") \/ webhookURL = ""
         THEN [@ EXCEPT !.pc = "rejected", !.kind = kind, !.resp = 400]
         ELSE [@ EXCEPT !.pc = "accepted", !.kind = kind, !.resp = 202,
                        !.ctxDone = TRUE,
                        !.rid = IF requestID = "" THEN generateRequestID(r)
                                                  ELSE requestID]]
  /\ UNCHANGED <<store, inflight>>
  /\ UNCHANGED <<engineVars, k8sVars>>

\* Handler.SendMessage / Handler.Interrupt: validate, pick the request id, start
\* the goroutine on context.TODO() and answer 202
PostRequest(r, kind, userID, content, webhookURL, requestID) ==
  /\ rq[r].pc = "none"
  /\ rq' = [rq EXCEPT ![r] =
       IF userID = "" \/ (kind = "message" /\ content = "") \/ webhookURL = ""
         THEN [@ EXCEPT !.pc = "rejected", !.kind = kind, !.resp = 400]
         ELSE [@ EXCEPT !.pc = "accepted", !.kind = kind, !.resp = 202,
                        !.rid = IF requestID = "" THEN generateRequestID(r)
                                                  ELSE requestID]]
  /\ UNCHANGED <<store, inflight>>
  /\ UNCHANGED <<engineVars, k8sVars>>

\* SendMessageWithWebhook / InterruptWithWebhook called with a ctx of the
\* caller's, which the caller can cancel
ProcessorCall(r, kind, requestID) ==
  /\ rq[r].pc = "none"
  /\ rq' = [rq EXCEPT ![r] = [@ EXCEPT !.pc = "accepted", !.kind = kind,
                                       !.rid = requestID, !.cancellable = TRUE]]
  /\ UNCHANGED <<store, inflight>>
  /\ UNCHANGED <<engineVars, k8sVars>>

CancelRequestCtx(r) ==
  /\ rq[r].cancellable
  /\ ~rq[r].ctxDone
  /\ rq[r].pc \in {"accepted", "connect", "pump", "delivering", "delivering_err"}
  /\ rq' = [rq EXCEPT ![r].ctxDone = TRUE]
  /\ UNCHANGED <<store, inflight>>
  /\ UNCHANGED <<engineVars, k8sVars>>

\* mutant: a failed insert ends the call
CreateDeliveryRecord_AbortOnError(r) ==
  /\ rq[r].pc = "accepted"
  /\ LET ok == ~UniqueViolation(rq[r].rid) /\ ~rq[r].ctxDone
     IN /\ store' = IF ok THEN CreateWebhookDelivery(rq[r].rid) ELSE store
        /\ rq' = IF ok THEN [rq EXCEPT ![r].pc = "connect", ![r].created = @ + 1]
                 ELSE [rq EXCEPT ![r].pc = "done", ![r].ret = "record_error"]
  /\ UNCHANGED inflight
  /\ UNCHANGED <<engineVars, k8sVars>>

\* CreateDeliveryRecord: a failure is logged and the call goes on
CreateDeliveryRecord(r) ==
  /\ rq[r].pc = "accepted"
  /\ LET ok == ~UniqueViolation(rq[r].rid) /\ ~rq[r].ctxDone
     IN /\ store' = IF ok THEN CreateWebhookDelivery(rq[r].rid) ELSE store
        /\ rq' = [rq EXCEPT ![r].pc = "connect",
                            ![r].created = IF ok THEN @ + 1 ELSE @]
  /\ UNCHANGED inflight
  /\ UNCHANGED <<engineVars, k8sVars>>

\* mutant: the outbound direction is left open
OpenStream_NoHalfClose(r, reachable, sendOK) ==
  /\ rq[r].pc = "connect"
  /\ IF reachable /\ sendOK
       THEN /\ rq' = [rq EXCEPT ![r].pc = "pump", ![r].nReq = @ + 1, ![r].kind = ""]
            /\ UNCHANGED inflight
       ELSE LET p == ErrorToPayload(0, IF reachable THEN "SEND_FAILED"
                                                    ELSE "AGENT_UNREACHABLE")
            IN /\ rq' = [rq EXCEPT ![r].pc = "done",
                                   ![r].ret = IF reachable THEN "send_error"
                                                           ELSE "connect_error",
                                   ![r].closed = reachable, ![r].kind = "",
                                   ![r].async = Append(@, p)]
               /\ inflight' = inflight \cup {[req |-> r, async |-> TRUE, n |-> 1]}
  /\ UNCHANGED store
  /\ UNCHANGED <<engineVars, k8sVars>>

\* ConnectToAgent, stream.Send of the one AgentRequest and CloseRequest:
\* GetPodAddress fails (no pod, no IP), or the stream is opened and Send fails, or
\* the request is sent and the outbound direction half-closed
OpenStream(r, reachable, sendOK) ==
  /\ rq[r].pc = "connect"
  /\ IF reachable /\ sendOK
       THEN /\ rq' = [rq EXCEPT ![r].pc = "pump", ![r].nReq = @ + 1, ![r].closed = TRUE,
                                 ![r].kind = ""]
            /\ UNCHANGED inflight
       ELSE LET p == ErrorToPayload(0, IF reachable THEN "SEND_FAILED"
                                                    ELSE "AGENT_UNREACHABLE")
            IN /\ rq' = [rq EXCEPT ![r].pc = "done",
                                   ![r].ret = IF reachable THEN "send_error"
                                                           ELSE "connect_error",
                                   ![r].closed = reachable, ![r].kind = "",
                                   ![r].async = Append(@, p)]
               /\ inflight' = inflight \cup {[req |-> r, async |-> TRUE, n |-> 1]}
  /\ UNCHANGED store
  /\ UNCHANGED <<engineVars, k8sVars>>

\* the background task of DeliverAsync ends
AsyncDeliverEnds(d) ==
  /\ d \in inflight
  /\ d.async
  /\ inflight' = inflight \ {d}
  /\ UNCHANGED <<rq, store>>
  /\ UNCHANGED <<engineVars, k8sVars>>

\* mutant: the payload is handed over and the pump goes on without waiting
HandOff_NoWait(req, payload, pc) == [req EXCEPT !.pc = "pump", !.handed = Append(@, payload)]

\* the pump hands a payload to Deliver and waits for the call to return
HandOff(req, payload, pc) == [req EXCEPT !.pc = pc, !.handed = Append(@, payload)]

SyncDelivery(r) == [req |-> r, async |-> FALSE, n |-> Len(rq[r].handed) + 1]

\* streamToWebhook, top of the loop: ctx check
PumpCtxDone(r) ==
  /\ rq[r].pc = "pump"
  /\ rq[r].ctxDone
  /\ rq' = [rq EXCEPT ![r].pc = "done", ![r].ret = "ctx_error"]
  /\ UNCHANGED <<store, inflight>>
  /\ UNCHANGED <<engineVars, k8sVars>>

\* the responses received from the agent streams so far, all requests together
RECURSIVE TotalReceived(_)
TotalReceived(S) ==
  IF S = {} THEN 0
  ELSE LET r == CHOOSE x \in S : TRUE
       IN Len(rq[r].recv) + TotalReceived(S \ {r})

\* stream.Receive returns a response: convert, update seq, call Deliver
PumpReceive(r, resp) ==
  /\ rq[r].pc = "pump"
  /\ ~rq[r].ctxDone
  /\ TotalReceived(Reqs) < MaxEvents
  /\ LET payload == AgentResponseToPayload(resp)
     IN /\ store' = UpdateDeliverySeq(r, rq[r].rid, resp.seq, payload.eventType)
        /\ inflight' = inflight \cup {SyncDelivery(r)}
        /\ rq' = [rq EXCEPT ![r] = HandOff([@ EXCEPT !.recv = Append(@, resp)],
                                           payload, "delivering")]
  /\ UNCHANGED <<engineVars, k8sVars>>

\* stream.Receive returns EOF: the record is marked completed
PumpEOF(r) ==
  /\ rq[r].pc = "pump"
  /\ ~rq[r].ctxDone
  /\ store' = MarkDeliveryCompleted(r, rq[r].rid)
  /\ rq' = [rq EXCEPT ![r].pc = "done", ![r].ret = "nil"]
  /\ UNCHANGED inflight
  /\ UNCHANGED <<engineVars, k8sVars>>

\* stream.Receive returns another error, which it also does when the ctx ends
\* while it waits: a STREAM_ERROR payload is delivered
PumpStreamError(r) ==
  /\ rq[r].pc = "pump"
  /\ inflight' = inflight \cup {SyncDelivery(r)}
  /\ rq' = [rq EXCEPT ![r] = HandOff(@, ErrorToPayload(0, "STREAM_ERROR"), "delivering_err")]
  /\ UNCHANGED store
  /\ UNCHANGED <<engineVars, k8sVars>>

\* ... and when that Deliver has returned the record is marked failed
PumpStreamErrorEnds(r) ==
  /\ rq[r].pc = "delivering_err"
  /\ inflight' = {d \in inflight : d.req # r \/ d.async}
  /\ store' = MarkDeliveryFailed(r, rq[r].rid)
  /\ rq' = [rq EXCEPT ![r].pc = "done", ![r].ret = "stream_error"]
  /\ UNCHANGED <<engineVars, k8sVars>>

\* what the pump's log tells of a Deliver result: nil, a client error, another error
Logged(outcome) == IF outcome \in {"nil", "client_error"} THEN outcome ELSE "error"

\* mutant: the loop goes on after a final payload
PumpDeliverReturns_FinalGoesOn(r, outcome) ==
  /\ rq[r].pc = "delivering"
  /\ inflight' = {d \in inflight : d.req # r \/ d.async}
  /\ rq' = [rq EXCEPT ![r].pc = "pump", ![r].lastRet = Logged(outcome)]
  /\ UNCHANGED store
  /\ UNCHANGED <<engineVars, k8sVars>>

\* mutant: an error of Deliver ends the pump
PumpDeliverReturns_AbortOnError(r, outcome) ==
  /\ rq[r].pc = "delivering"
  /\ inflight' = {d \in inflight : d.req # r \/ d.async}
  /\ IF outcome # "nil"
       THEN /\ store' = MarkDeliveryFailed(r, rq[r].rid)
            /\ rq' = [rq EXCEPT ![r].pc = "done", ![r].ret = "deliver_error",
                                ![r].lastRet = Logged(outcome)]
       ELSE IF rq[r].handed[Len(rq[r].handed)].isFinal
       THEN /\ store' = MarkDeliveryCompleted(r, rq[r].rid)
            /\ rq' = [rq EXCEPT ![r].pc = "done", ![r].ret = "nil",
                                ![r].lastRet = Logged(outcome)]
       ELSE /\ rq' = [rq EXCEPT ![r].pc = "pump", ![r].lastRet = Logged(outcome)]
            /\ UNCHANGED store
  /\ UNCHANGED <<engineVars, k8sVars>>

\* Deliver returns (nil or an error, which is only logged); a final payload
\* ends the pump
PumpDeliverReturns(r, outcome) ==
  /\ rq[r].pc = "delivering"
  /\ inflight' = {d \in inflight : d.req # r \/ d.async}
  /\ IF rq[r].handed[Len(rq[r].handed)].isFinal
       THEN /\ store' = MarkDeliveryCompleted(r, rq[r].rid)
            /\ rq' = [rq EXCEPT ![r].pc = "done", ![r].ret = "nil",
                                ![r].lastRet = Logged(outcome)]
       ELSE /\ rq' = [rq EXCEPT ![r].pc = "pump", ![r].lastRet = Logged(outcome)]
            /\ UNCHANGED store
  /\ UNCHANGED <<engineVars, k8sVars>>

DeliverOutcomes == {"nil", "client_error", "exhausted", "circuit_open", "ctx_error"}

NextPump ==
  \/ \E r \in Reqs, kind \in {"message", "interrupt"}, userID \in {"", "u"},
        content \in {"", "hello"}, webhookURL \in {"", "u1"},
        requestID \in ClientRIDs \cup {""} :
       PostRequest(r, kind, userID, content, webhookURL, requestID)
  \/ \E r \in DirectCalls, kind \in {"message", "interrupt"}, requestID \in ClientRIDs :
       ProcessorCall(r, kind, requestID)
  \/ \E r \in Reqs : CancelRequestCtx(r)
  \/ \E r \in Reqs : CreateDeliveryRecord(r)
  \/ \E r \in Reqs, reachable \in BOOLEAN, sendOK \in BOOLEAN :
       OpenStream(r, reachable, sendOK)
  \/ \E d \in inflight : AsyncDeliverEnds(d)
  \/ \E r \in Reqs : PumpCtxDone(r)
  \/ \E r \in Reqs, resp \in StreamResponses : PumpReceive(r, resp)
  \/ \E r \in Reqs : PumpEOF(r)
  \/ \E r \in Reqs : PumpStreamError(r)
  \/ \E r \in Reqs : PumpStreamErrorEnds(r)
  \/ \E r \in Reqs, outcome \in DeliverOutcomes : PumpDeliverReturns(r, outcome)

(***************************************************************************)
(* The pump of one call together with the Deliver calls it makes: the      *)
(* pump's ctx is the ctx of its Deliver calls, and the pump goes on when   *)
(* its Deliver call has returned.                                          *)
(***************************************************************************)
\* the call of the processor and the goroutine that runs it
LiveReq == "r1"
LiveCaller == "g1"

\* the pump calls Deliver for the payload it has just handed over
LiveDeliver ==
  /\ rq[LiveReq].pc \in {"delivering", "delivering_err"}
  /\ ncalls < Len(rq[LiveReq].handed)
  /\ dl[LiveCaller].pc \in {"idle", "done"}
  /\ ncalls' = ncalls + 1
  /\ dl' = [dl EXCEPT ![LiveCaller] =
       LET call == Checked([IdleCall EXCEPT !.url = "u1"])
       IN [call EXCEPT !.ctxDone = rq[LiveReq].ctxDone /\ call.pc # "done"]]
  /\ UNCHANGED <<cfgMaxRetries, cfgThreshold, now, circuitStates>>
  /\ UNCHANGED <<pumpVars, k8sVars>>

\* the Deliver call for the last payload handed over has returned
Delivered ==
  dl[LiveCaller].pc = "done" /\ ncalls = Len(rq[LiveReq].handed)

\* ... and the pump goes on with what it returned
LiveDeliverReturns ==
  /\ Delivered
  /\ PumpDeliverReturns(LiveReq, dl[LiveCaller].ret)

LiveStreamErrorEnds ==
  /\ Delivered
  /\ PumpStreamErrorEnds(LiveReq)

\* the caller cancels the ctx of the call, which is the ctx of a Deliver call
\* in progress
LiveCancelCtx ==
  /\ rq[LiveReq].cancellable
  /\ ~rq[LiveReq].ctxDone
  /\ rq[LiveReq].pc \in {"accepted", "connect", "pump", "delivering", "delivering_err"}
  /\ rq' = [rq EXCEPT ![LiveReq].ctxDone = TRUE]
  /\ dl' = IF dl[LiveCaller].pc \in {"send", "http", "record", "sleep"}
             THEN [dl EXCEPT ![LiveCaller].ctxDone = TRUE]
             ELSE dl
  /\ UNCHANGED <<store, inflight>>
  /\ UNCHANGED <<cfgMaxRetries, cfgThreshold, now, circuitStates, ncalls, k8sVars>>

\* the clock advances to the next timer or the end of an open circuit
LiveTimePasses == ClockAdvances(now + WebhookCircuitTimeout)

\* the responses of the stream, without their sequence numbers
LiveResponses == {resp \in StreamResponses : resp.seq = 0}

\* stream.Receive returns a response to the pump
LiveReceive(resp) ==
  /\ Len(rq[LiveReq].recv) < MaxLiveEvents
  /\ PumpReceive(LiveReq, resp)

NextLive ==
  \/ \E kind \in {"message", "interrupt"}, requestID \in ClientRIDs :
       ProcessorCall(LiveReq, kind, requestID)
  \/ LiveCancelCtx
  \/ CreateDeliveryRecord(LiveReq)
  \/ \E reachable \in BOOLEAN, sendOK \in BOOLEAN : OpenStream(LiveReq, reachable, sendOK)
  \/ \E d \in inflight : AsyncDeliverEnds(d)
  \/ PumpCtxDone(LiveReq)
  \/ \E resp \in LiveResponses : LiveReceive(resp)
  \/ PumpEOF(LiveReq)
  \/ PumpStreamError(LiveReq)
  \/ LiveDeliver
  \/ AttemptStart(LiveCaller)
  \/ \E code \in Statuses : AttemptReturn(LiveCaller, code)
  \/ RecordResult(LiveCaller)
  \/ SleepCtxDone(LiveCaller)
  \/ LiveTimePasses
  \/ LiveDeliverReturns
  \/ LiveStreamErrorEnds

\* a goroutine that can run does run, a timer fires, and every HTTP attempt
\* returns
LiveFairness ==
  /\ WF_vars(LiveDeliver)
  /\ WF_vars(AttemptStart(LiveCaller))
  /\ WF_vars(\E code \in Statuses : AttemptReturn(LiveCaller, code))
  /\ WF_vars(RecordResult(LiveCaller))
  /\ WF_vars(SleepCtxDone(LiveCaller))
  /\ WF_vars(LiveTimePasses)
  /\ WF_vars(LiveDeliverReturns)
  /\ WF_vars(LiveStreamErrorEnds)

\* one request, and a stream that can carry every kind of response
NextConvert ==
  \/ \E r \in DirectCalls, kind \in {"message", "interrupt"}, requestID \in ClientRIDs :
       ProcessorCall(r, kind, requestID)
  \/ \E r \in DirectCalls : CreateDeliveryRecord(r)
  \/ \E r \in DirectCalls, reachable \in BOOLEAN, sendOK \in BOOLEAN :
       OpenStream(r, reachable, sendOK)
  \/ \E d \in inflight : AsyncDeliverEnds(d)
  \/ \E r \in DirectCalls, resp \in AllResponses : PumpReceive(r, resp)
  \/ \E r \in DirectCalls : PumpEOF(r)
  \/ \E r \in DirectCalls, outcome \in DeliverOutcomes : PumpDeliverReturns(r, outcome)
(***************************************************************************)
(* Pod lifecycle: the cluster, Manager.WatchPod, Manager.WaitForPodReady,  *)
(* Manager.GetPodAddress, Manager.ClosePod and Processor.DeleteAgent.      *)
(* One pod name is followed; the clock is the engine's `now`.              *)
(***************************************************************************)
PodPhases == {"Pending", "Running", "Failed"}
PodIPs == {"", "10.0.0.1"}
Waiters == {"w1"}
\* no deadline on a context
NoDeadline == 0
\* seconds until the caller's deadline, for the callers that set one
CtxTimeouts == {5, 20}

\* a pod snapshot; cs is Status.ContainerStatuses, one ready flag per container
NoPod == [exists |-> FALSE, phase |-> "", ip |-> "", cs |-> <<>>]
\* the pod as CreatePod leaves it: nothing of its status is set yet
NewPod == [exists |-> TRUE, phase |-> "Pending", ip |-> "", cs |-> <<>>]

\* the locals of a WaitForPodReady call; events is what the watch has produced
\* and the call has not consumed; vias records how the successful calls returned.
\* agent is the position of the CreateAgent call the wait belongs to, if any,
\* cleanup what became of that call's ClosePod, and unread whether the call
\* returned with an event of a ready pod behind the one it returned on
NoWait == [pc |-> "idle", events |-> <<>>, pod |-> NoPod, err |-> "none",
           via |-> "", calls |-> 0, vias |-> {}, agent |-> "none",
           cleanup |-> "none", unread |-> FALSE]
\* the locals of a DeleteAgent call
NoDelete == [pc |-> "idle", graceful |-> FALSE, deadline |-> NoDeadline,
             shutdownDeadline |-> NoDeadline, shutdown |-> "none",
             podAtClose |-> FALSE, issued |-> FALSE, ret |-> "none"]

\* the pods of the namespace by their names, each with its user-id and agent-id
\* labels: none at the start
NoPods == [name \in {} |-> [UserID |-> "", AgentID |-> ""]]

\* what WatchPod's goroutine sends on its channel
NoEvent == [type |-> "", err |-> FALSE]
\* the locals of a RestartPod call (pc, ret, ctxDone, and watchCtxDone, which
\* cancelWatch sets) and of the goroutine WatchPod starts for it: gpc is its
\* position, gev the event it is sending, last whether it returns after that
\* send, chClosed and watcher its channel and its watcher, nres the results its
\* watcher has produced; log is the history of the call: the ClosePod and
\* CreatePod calls it made and the events its loop received, in order
NoRestart == [pc |-> "idle", ret |-> "none", ctxDone |-> FALSE, watchCtxDone |-> FALSE,
              gpc |-> "none", gev |-> NoEvent, last |-> FALSE, chClosed |-> FALSE,
              watcher |-> "none", nres |-> 0, log |-> <<>>]

K8sAtRest ==
  /\ cluster = [pod |-> NoPod, changes |-> 0, pods |-> NoPods]
  /\ wfr = [w \in Waiters |-> NoWait]
  /\ da = NoDelete
  /\ rp = NoRestart

\* mutant: readiness without the pod IP
isPodReady_NoIP(pod) ==
  /\ pod.phase = "Running"
  /\ \A i \in 1..Len(pod.cs) : pod.cs[i]

isPodReady(pod) ==
  /\ pod.phase = "Running"
  /\ pod.ip # ""
  /\ \A i \in 1..Len(pod.cs) : pod.cs[i]

\* a context with this deadline is done
CtxDone(deadline) == deadline # NoDeadline /\ now >= deadline

\* the watches that are open see every change of the pod
Emit(type, pod) ==
  [w \in Waiters |->
     IF wfr[w].pc = "watching"
     THEN [wfr[w] EXCEPT !.events = Append(@, [type |-> type, pod |-> pod])]
     ELSE wfr[w]]

\* Manager.CreatePod: the cluster rejects a name that is taken
CreatePod ==
  /\ cluster.changes < MaxPodChanges
  /\ IF cluster.pod.exists
     THEN UNCHANGED <<cluster, wfr>>
     ELSE /\ cluster' = [cluster EXCEPT !.pod = NewPod, !.changes = @ + 1]
          /\ wfr' = Emit("Added", NewPod)
  /\ UNCHANGED <<da, now>>
  /\ UNCHANGED <<engineRest, pumpVars, rp>>

\* the cluster changes one field of the pod's status, or the kubelet reports a
\* started pod: running, with its IP
StatusChanges(pod) ==
  {[pod EXCEPT !.phase = ph] : ph \in PodPhases \ {pod.phase}}
  \cup (IF pod.phase = "Pending" /\ pod.ip = ""
        THEN {[pod EXCEPT !.phase = "Running", !.ip = ip] : ip \in PodIPs \ {""}}
        ELSE {})
  \cup {[pod EXCEPT !.ip = ip] : ip \in PodIPs \ {pod.ip}}
  \cup (IF Len(pod.cs) < MaxContainers
        THEN {[pod EXCEPT !.cs = Append(@, b)] : b \in BOOLEAN} ELSE {})
  \cup {[pod EXCEPT !.cs[i] = ~@] : i \in 1..Len(pod.cs)}

PodStatusUpdate(new) ==
  /\ cluster.changes < MaxPodChanges
  /\ cluster.pod.exists
  /\ new \in StatusChanges(cluster.pod)
  /\ cluster' = [cluster EXCEPT !.pod = new, !.changes = @ + 1]
  /\ wfr' = Emit("Modified", new)
  /\ UNCHANGED <<da, now>>
  /\ UNCHANGED <<engineRest, pumpVars, rp>>

\* somebody else deletes the pod
PodDeleted ==
  /\ cluster.changes < MaxPodChanges
  /\ cluster.pod.exists
  /\ cluster' = [cluster EXCEPT !.pod = NoPod, !.changes = @ + 1]
  /\ wfr' = Emit("Deleted", cluster.pod)
  /\ UNCHANGED <<da, now>>
  /\ UNCHANGED <<engineRest, pumpVars, rp>>

WaitReturns(w, pod, err, via) ==
  [w EXCEPT !.pc = "done", !.events = <<>>, !.pod = pod, !.err = err, !.via = via,
            !.vias = IF err = "nil" THEN @ \cup {via} ELSE @,
            !.unread = \E i \in 2..Len(w.events) : isPodReady(w.events[i].pod)]

\* WaitForPodReady, first part: the initial snapshot
Snapshot(call) ==
  LET pod == cluster.pod
  IN IF ~pod.exists THEN WaitReturns(call, NoPod, "not_found", "snapshot")
     ELSE IF isPodReady(pod) THEN WaitReturns(call, pod, "nil", "snapshot")
     ELSE [call EXCEPT !.pc = "watch"]

\* a CreateAgent call whose wait has failed and whose cleanup is still to come
CleanupPending(w) ==
  wfr[w].pc = "done" /\ wfr[w].agent = "wait" /\ wfr[w].err # "nil"

\* a new call may begin: the one before it has returned
Callable(w) ==
  /\ wfr[w].pc \in {"idle", "done"}
  /\ ~CleanupPending(w)
  /\ wfr[w].calls < MaxWaitCalls

\* WaitForPodReady is called on its own
WaitForPodReady(w) ==
  /\ Callable(w)
  /\ LET call == [NoWait EXCEPT !.calls = wfr[w].calls + 1, !.vias = wfr[w].vias]
     IN wfr' = [wfr EXCEPT ![w] = Snapshot(call)]
  /\ UNCHANGED <<cluster, da, now>>
  /\ UNCHANGED <<engineRest, pumpVars, rp>>

\* Manager.WatchPod: GetPod, then the watch; a watch may begin with the pod's
\* current state as an Added event
WatchPod(w, initial) ==
  /\ wfr[w].pc = "watch"
  /\ wfr' = [wfr EXCEPT ![w] =
       IF ~cluster.pod.exists THEN WaitReturns(@, NoPod, "not_found", "watch")
       ELSE [@ EXCEPT !.pc = "watching",
                      !.events = IF initial
                                 THEN <<[type |-> "Added", pod |-> cluster.pod]>>
                                 ELSE <<>>]]
  /\ UNCHANGED <<cluster, da, now>>
  /\ UNCHANGED <<engineRest, pumpVars, rp>>

\* mutant: a Deleted event is handled like any other
WatchEvent_DeletedIsAnEvent(w) ==
  /\ wfr[w].pc = "watching"
  /\ wfr[w].events # <<>>
  /\ LET ev == Head(wfr[w].events)
     IN wfr' = [wfr EXCEPT ![w] =
          IF isPodReady(ev.pod) THEN WaitReturns(@, ev.pod, "nil", "watch")
          ELSE [@ EXCEPT !.events = Tail(@)]]
  /\ UNCHANGED <<cluster, da, now>>
  /\ UNCHANGED <<engineRest, pumpVars, rp>>

\* WaitForPodReady, the loop over the events of WatchPod
WatchEvent(w) ==
  /\ wfr[w].pc = "watching"
  /\ wfr[w].events # <<>>
  /\ LET ev == Head(wfr[w].events)
     IN wfr' = [wfr EXCEPT ![w] =
          IF ev.type = "Deleted" THEN WaitReturns(@, NoPod, "deleted", "watch")
          ELSE IF isPodReady(ev.pod) THEN WaitReturns(@, ev.pod, "nil", "watch")
          ELSE [@ EXCEPT !.events = Tail(@)]]
  /\ UNCHANGED <<cluster, da, now>>
  /\ UNCHANGED <<engineRest, pumpVars, rp>>

\* the watch ends: ctx done, watch.Error, or the result channel is closed
WatchFails(w, err) ==
  /\ wfr[w].pc = "watching"
  /\ wfr' = [wfr EXCEPT ![w] = WaitReturns(@, NoPod, err, "watch")]
  /\ UNCHANGED <<cluster, da, now>>
  /\ UNCHANGED <<engineRest, pumpVars, rp>>

\* Manager.GetPodAddress under a context with this deadline
GetPodAddress(deadline) ==
  IF CtxDone(deadline) THEN "ctx_done"
  ELSE IF ~cluster.pod.exists THEN "not_found"
  ELSE IF cluster.pod.ip = "" THEN "not_ready"
  ELSE "nil"

(***************************************************************************)
(* Pods addressed by PodID: the namespace holds pods by name.              *)
(***************************************************************************)
\* the characters of an id: a letter and the separator of PodID.Name
IDChars == {"a", "-"}

\* the strings of up to n of these characters
RECURSIVE IDStrings(_)
IDStrings(n) ==
  IF n = 0 THEN {""}
  ELSE LET shorter == IDStrings(n - 1)
       IN shorter \cup {str \o ch : str \in shorter, ch \in IDChars}

\* PodID with non-empty user and agent ids
PodIDs == [UserID : IDStrings(MaxIDLen) \ {""}, AgentID : IDStrings(MaxIDLen) \ {""}]

\* PodID.Name: fmt.Sprintf("%s-%s", p.UserID, p.AgentID)
Name(p) == p.UserID \o "-" \o p.AgentID

\* Manager.GetPod: the pod that has the name of this PodID, if there is one
NoPodID == [UserID |-> "", AgentID |-> ""]
GetPod(p) ==
  IF Name(p) \in DOMAIN cluster.pods THEN cluster.pods[Name(p)] ELSE NoPodID

\* Manager.CreatePod for a PodID: the pod gets the name and the labels of the
\* PodID; a name that is taken is rejected
CreatePodFor(p) ==
  /\ Cardinality(DOMAIN cluster.pods) < MaxNamedPods
  /\ IF Name(p) \in DOMAIN cluster.pods
       THEN UNCHANGED cluster
       ELSE cluster' = [cluster EXCEPT !.pods = @ @@ (Name(p) :> p)]
  /\ UNCHANGED <<wfr, da, rp, now>>
  /\ UNCHANGED <<engineRest, pumpVars>>

\* Manager.ClosePod for a PodID: the pod of that name is deleted
ClosePodFor(p) ==
  /\ Name(p) \in DOMAIN cluster.pods
  /\ cluster' = [cluster EXCEPT
                   !.pods = [name \in DOMAIN @ \ {Name(p)} |-> @[name]]]
  /\ UNCHANGED <<wfr, da, rp, now>>
  /\ UNCHANGED <<engineRest, pumpVars>>

\* callers that create and delete the pods of their PodIDs
NextName ==
  \/ \E p \in PodIDs : CreatePodFor(p)
  \/ \E p \in PodIDs : ClosePodFor(p)

\* mutant: deleting a pod that is not there is no error
ClosePod_AbsentIsNil(deadline) ==
  IF CtxDone(deadline) THEN [issued |-> FALSE, err |-> "ctx_done"]
  ELSE [issued |-> TRUE, err |-> "nil"]

\* Manager.ClosePod under a context with this deadline: a request on a context
\* that is done is not sent
ClosePod(deadline) ==
  IF CtxDone(deadline) THEN [issued |-> FALSE, err |-> "ctx_done"]
  ELSE IF ~cluster.pod.exists THEN [issued |-> TRUE, err |-> "not_found"]
  ELSE [issued |-> TRUE, err |-> "nil"]

\* mutant: the cleanup runs on the caller's context
CleanupCtx_Caller(w) == IF wfr[w].err = "ctx_done" THEN now ELSE NoDeadline

\* the deadline of the context CreateAgent cleans up on: context.Background()
CleanupCtx(w) == NoDeadline

\* mutant: a CreatePod that failed is followed by the cleanup as well
CreateAgent_CleanupAfterCreateError(w) ==
  /\ Callable(w)
  /\ cluster.changes < MaxPodChanges
  /\ LET call == [NoWait EXCEPT !.calls = wfr[w].calls + 1, !.vias = wfr[w].vias]
     IN IF cluster.pod.exists
        THEN /\ wfr' = [Emit("Deleted", cluster.pod) EXCEPT ![w] =
                  [call EXCEPT !.pc = "done", !.err = "create_failed",
                               !.agent = "failed", !.cleanup = "issued"]]
             /\ cluster' = [cluster EXCEPT !.pod = NoPod, !.changes = @ + 1]
        ELSE /\ cluster' = [cluster EXCEPT !.pod = NewPod, !.changes = @ + 1]
             /\ wfr' = [Emit("Added", NewPod) EXCEPT ![w] =
                  [call EXCEPT !.pc = "created", !.agent = "wait"]]
  /\ UNCHANGED <<da, now>>
  /\ UNCHANGED <<engineRest, pumpVars, rp>>

\* Processor.CreateAgent is called: CreatePod; when it fails the call returns
\* its error, and nothing is to clean up
CreateAgent(w) ==
  /\ Callable(w)
  /\ cluster.changes < MaxPodChanges
  /\ LET call == [NoWait EXCEPT !.calls = wfr[w].calls + 1, !.vias = wfr[w].vias]
     IN IF cluster.pod.exists
        THEN /\ wfr' = [wfr EXCEPT ![w] =
                  [call EXCEPT !.pc = "done", !.err = "create_failed",
                               !.agent = "failed"]]
             /\ UNCHANGED cluster
        ELSE /\ cluster' = [cluster EXCEPT !.pod = NewPod, !.changes = @ + 1]
             /\ wfr' = [Emit("Added", NewPod) EXCEPT ![w] =
                  [call EXCEPT !.pc = "created", !.agent = "wait"]]
  /\ UNCHANGED <<da, now>>
  /\ UNCHANGED <<engineRest, pumpVars, rp>>

\* CreateAgent's WaitForPodReady(ctx, podID) begins
CreateAgentWait(w) ==
  /\ wfr[w].pc = "created"
  /\ wfr' = [wfr EXCEPT ![w] = Snapshot(@)]
  /\ UNCHANGED <<cluster, da, now>>
  /\ UNCHANGED <<engineRest, pumpVars, rp>>

\* the wait has failed: ClosePod(context.Background(), podID), its error is
\* dropped, and CreateAgent returns the wait's error
CreateAgentCleanup(w) ==
  /\ CleanupPending(w)
  /\ LET res == ClosePod(CleanupCtx(w))
     IN /\ IF res.err = "nil"
           THEN /\ cluster' = [cluster EXCEPT !.pod = NoPod]
                /\ wfr' = [Emit("Deleted", cluster.pod) EXCEPT ![w] =
                     [wfr[w] EXCEPT !.agent = "failed", !.cleanup = "issued"]]
           ELSE /\ wfr' = [wfr EXCEPT ![w] =
                     [@ EXCEPT !.agent = "failed",
                               !.cleanup = IF res.issued THEN "issued"
                                           ELSE "not_issued"]]
                /\ UNCHANGED cluster
  /\ UNCHANGED <<da, now>>
  /\ UNCHANGED <<engineRest, pumpVars, rp>>

\* Processor.DeleteAgent is called; timeout = NoDeadline is a ctx without deadline
DeleteAgent(graceful, timeout) ==
  /\ da.pc = "idle"
  /\ da' = [da EXCEPT !.pc = IF graceful THEN "address" ELSE "close",
                      !.graceful = graceful,
                      !.deadline = IF timeout = NoDeadline THEN NoDeadline
                                   ELSE now + timeout]
  /\ UNCHANGED <<cluster, wfr, now>>
  /\ UNCHANGED <<engineRest, pumpVars, rp>>

\* graceful: GetPodAddress, and on success the Shutdown RPC under
\* context.WithTimeout(ctx, 10s), which ends no later than ctx does
DeleteAgentAddress ==
  /\ da.pc = "address"
  /\ da' = IF GetPodAddress(da.deadline) = "nil"
           THEN [da EXCEPT !.pc = "shutdown",
                           !.shutdownDeadline =
                              IF da.deadline = NoDeadline THEN now + ShutdownTimeout
                              ELSE Min(now + ShutdownTimeout, da.deadline)]
           ELSE [da EXCEPT !.pc = "close"]
  /\ UNCHANGED <<cluster, wfr, now>>
  /\ UNCHANGED <<engineRest, pumpVars, rp>>

\* the Shutdown RPC returns: an answer, an error, or its context's deadline
ShutdownReturns(outcome) ==
  /\ da.pc = "shutdown"
  /\ outcome = "timeout" <=> CtxDone(da.shutdownDeadline)
  /\ da' = [da EXCEPT !.pc = "close", !.shutdown = outcome]
  /\ UNCHANGED <<cluster, wfr, now>>
  /\ UNCHANGED <<engineRest, pumpVars, rp>>

\* DeleteAgent's ClosePod(ctx, podID) and return
DeleteAgentClose ==
  /\ da.pc = "close"
  /\ LET res == ClosePod(da.deadline)
     IN /\ da' = [da EXCEPT !.pc = "done", !.podAtClose = cluster.pod.exists,
                            !.issued = res.issued, !.ret = res.err]
        /\ IF res.err = "nil"
           THEN /\ cluster' = [cluster EXCEPT !.pod = NoPod]
                /\ wfr' = Emit("Deleted", cluster.pod)
           ELSE UNCHANGED <<cluster, wfr>>
  /\ UNCHANGED now
  /\ UNCHANGED <<engineRest, pumpVars, rp>>

\* the clock advances to the next deadline of the DeleteAgent call
K8sTimePasses ==
  /\ da.pc \in {"address", "shutdown", "close"}
  /\ \E t \in {da.deadline, da.shutdownDeadline} :
       /\ t # NoDeadline
       /\ t > now
       /\ t <= MaxTime
       /\ now' = t
  /\ UNCHANGED <<cluster, wfr, da>>
  /\ UNCHANGED <<engineRest, pumpVars, rp>>

(***************************************************************************)
(* Manager.RestartPod and the goroutine of Manager.WatchPod. The channel   *)
(* is unbuffered: a send waits for the consumer's receive.                 *)
(***************************************************************************)
\* the deadline of RestartPod's ctx: none, or passed when the ctx is done
RestartCtx == IF rp.ctxDone THEN now ELSE NoDeadline

\* RestartPod is called: WatchPod checks that the pod exists and starts its
\* goroutine under watchCtx
RestartPod ==
  /\ rp.pc = "idle"
  /\ rp' = IF CtxDone(RestartCtx) \/ ~cluster.pod.exists
           THEN [rp EXCEPT !.pc = "done", !.ret = "watch_init_error",
                           !.watchCtxDone = TRUE]
           ELSE [rp EXCEPT !.pc = "close", !.gpc = "start"]
  /\ UNCHANGED <<cluster, wfr, da, now>>
  /\ UNCHANGED <<engineRest, pumpVars>>

\* the caller's ctx is cancelled, and watchCtx, its child, with it
RestartCtxCancelled ==
  /\ rp.pc \in {"close", "loop", "create"}
  /\ ~rp.ctxDone
  /\ rp' = [rp EXCEPT !.ctxDone = TRUE, !.watchCtxDone = TRUE]
  /\ UNCHANGED <<cluster, wfr, da, now>>
  /\ UNCHANGED <<engineRest, pumpVars>>

\* RestartPod's ClosePod(ctx, podID); on an error it returns, and the deferred
\* cancelWatch runs
RestartClosePod ==
  /\ rp.pc = "close"
  /\ LET res == ClosePod(RestartCtx)
     IN IF res.err = "nil"
          THEN /\ cluster' = [cluster EXCEPT !.pod = NoPod]
               /\ wfr' = Emit("Deleted", cluster.pod)
               /\ rp' = [rp EXCEPT !.pc = "loop", !.log = Append(@, "ClosePod")]
          ELSE /\ rp' = [rp EXCEPT !.pc = "done", !.ret = "close_error",
                                   !.watchCtxDone = TRUE,
                                   !.log = Append(@, "ClosePod")]
               /\ UNCHANGED <<cluster, wfr>>
  /\ UNCHANGED <<da, now>>
  /\ UNCHANGED <<engineRest, pumpVars>>

\* the goroutine's Watch call: on an error it goes to send it and return
WatchStart(ok) ==
  /\ rp.gpc = "start"
  /\ rp.watchCtxDone => ~ok
  /\ rp' = IF ok THEN [rp EXCEPT !.gpc = "select", !.watcher = "open"]
           ELSE [rp EXCEPT !.gpc = "send", !.gev = [type |-> "", err |-> TRUE],
                           !.last = TRUE]
  /\ UNCHANGED <<cluster, wfr, da, now>>
  /\ UNCHANGED <<engineRest, pumpVars>>

\* select, case <-ctx.Done(): the goroutine goes to send ctx.Err() and return
WatchSelectCtx ==
  /\ rp.gpc = "select"
  /\ rp.watchCtxDone
  /\ rp' = [rp EXCEPT !.gpc = "send", !.gev = [type |-> "", err |-> TRUE],
                      !.last = TRUE]
  /\ UNCHANGED <<cluster, wfr, da, now>>
  /\ UNCHANGED <<engineRest, pumpVars>>

\* select, case event, ok := <-watcher.ResultChan(): a pod event is sent on; a
\* closed result channel or a watch.Error is sent as an error, and the goroutine
\* returns after it
WatchResults == {"Added", "Modified", "Deleted", "Error", "closed"}
WatchResult(kind) ==
  /\ rp.gpc = "select"
  /\ rp.nres < MaxWatchResults
  /\ rp' = IF kind \in {"Error", "closed"}
           THEN [rp EXCEPT !.gpc = "send", !.gev = [type |-> "", err |-> TRUE],
                           !.last = TRUE, !.nres = @ + 1]
           ELSE [rp EXCEPT !.gpc = "send", !.gev = [type |-> kind, err |-> FALSE],
                           !.nres = @ + 1]
  /\ UNCHANGED <<cluster, wfr, da, now>>
  /\ UNCHANGED <<engineRest, pumpVars>>

\* the goroutine after its send: back to the select, or the return with its
\* deferred watcher.Stop() and close(eventCh)
AfterSend(call) ==
  IF call.last
    THEN [call EXCEPT !.gpc = "terminated", !.gev = NoEvent, !.chClosed = TRUE,
                      !.watcher = IF @ = "open" THEN "stopped" ELSE @]
    ELSE [call EXCEPT !.gpc = "select", !.gev = NoEvent]

\* what the range loop's history records for an event
Received(ev) == IF ev.err THEN "Err" ELSE ev.type

\* mutant: any pod event ends the wait
WatchHandoff_AnyEventBreaks ==
  /\ rp.gpc = "send"
  /\ rp.pc = "loop"
  /\ rp' = IF rp.gev.err
           THEN [AfterSend(rp) EXCEPT !.pc = "done", !.ret = "watch_error",
                                      !.watchCtxDone = TRUE,
                                      !.log = Append(@, Received(rp.gev))]
           ELSE [AfterSend(rp) EXCEPT !.pc = "create",
                                      !.log = Append(@, Received(rp.gev))]
  /\ UNCHANGED <<cluster, wfr, da, now>>
  /\ UNCHANGED <<engineRest, pumpVars>>

\* the send of the goroutine meets the receive of RestartPod's range loop: an
\* error makes RestartPod return, a Deleted event break out of the loop
WatchHandoff ==
  /\ rp.gpc = "send"
  /\ rp.pc = "loop"
  /\ rp' = IF rp.gev.err
           THEN [AfterSend(rp) EXCEPT !.pc = "done", !.ret = "watch_error",
                                      !.watchCtxDone = TRUE,
                                      !.log = Append(@, Received(rp.gev))]
           ELSE IF rp.gev.type = "Deleted"
           THEN [AfterSend(rp) EXCEPT !.pc = "create",
                                      !.log = Append(@, Received(rp.gev))]
           ELSE [AfterSend(rp) EXCEPT !.log = Append(@, Received(rp.gev))]
  /\ UNCHANGED <<cluster, wfr, da, now>>
  /\ UNCHANGED <<engineRest, pumpVars>>

\* RestartPod's CreatePod(ctx, podID) and return; the deferred cancelWatch runs
RestartCreatePod ==
  /\ rp.pc = "create"
  /\ IF CtxDone(RestartCtx) \/ cluster.pod.exists
       THEN /\ rp' = [rp EXCEPT !.pc = "done", !.ret = "create_error",
                                !.watchCtxDone = TRUE,
                                !.log = Append(@, "CreatePod")]
            /\ UNCHANGED <<cluster, wfr>>
       ELSE /\ rp' = [rp EXCEPT !.pc = "done", !.ret = "nil", !.watchCtxDone = TRUE,
                                !.log = Append(@, "CreatePod")]
            /\ cluster' = [cluster EXCEPT !.pod = NewPod]
            /\ wfr' = Emit("Added", NewPod)
  /\ UNCHANGED <<da, now>>
  /\ UNCHANGED <<engineRest, pumpVars>>

\* the steps of WatchPod's goroutine
GoroutineStep ==
  \/ \E ok \in BOOLEAN : WatchStart(ok)
  \/ WatchSelectCtx
  \/ \E kind \in WatchResults : WatchResult(kind)
  \/ WatchHandoff

\* RestartPod, the goroutine of its WatchPod, and the cluster
NextWatch ==
  \/ CreatePod
  \/ PodDeleted
  \/ RestartPod
  \/ RestartCtxCancelled
  \/ RestartClosePod
  \/ \E ok \in BOOLEAN : WatchStart(ok)
  \/ WatchSelectCtx
  \/ \E kind \in WatchResults : WatchResult(kind)
  \/ WatchHandoff
  \/ RestartCreatePod

ShutdownOutcomes == {"ok", "error", "timeout"}
WatchErrors == {"ctx_done", "watch_error", "closed"}

\* callers of WaitForPodReady and of CreateAgent, and the cluster
NextK8s ==
  \/ CreatePod
  \/ \E new \in StatusChanges(cluster.pod) : PodStatusUpdate(new)
  \/ PodDeleted
  \/ \E w \in Waiters : WaitForPodReady(w)
  \/ \E w \in Waiters : CreateAgent(w)
  \/ \E w \in Waiters : CreateAgentWait(w)
  \/ \E w \in Waiters : CreateAgentCleanup(w)
  \/ \E w \in Waiters, initial \in BOOLEAN : WatchPod(w, initial)
  \/ \E w \in Waiters : WatchEvent(w)
  \/ \E w \in Waiters, err \in WatchErrors : WatchFails(w, err)

\* a caller of DeleteAgent, and the cluster
NextDelete ==
  \/ CreatePod
  \/ \E new \in StatusChanges(cluster.pod) : PodStatusUpdate(new)
  \/ PodDeleted
  \/ \E graceful \in BOOLEAN, timeout \in {NoDeadline} \cup CtxTimeouts :
       DeleteAgent(graceful, timeout)
  \/ DeleteAgentAddress
  \/ \E outcome \in ShutdownOutcomes : ShutdownReturns(outcome)
  \/ DeleteAgentClose
  \/ K8sTimePasses

(***************************************************************************)
(* Specifications.                                                         *)
(***************************************************************************)
InitDeliver ==
  /\ InitEngine
  /\ PumpAtRest
  /\ K8sAtRest
SpecDeliver == InitDeliver /\ [][NextDeliver]_vars

\* WebhookMaxRetries below, at and above the number of retry delays
InitRetry ==
  /\ cfgMaxRetries \in (Len(RetryDelays) - 1)..(Len(RetryDelays) + MaxRetriesCfg)
  /\ cfgThreshold = DefaultCircuitThreshold
  /\ EngineAtRest
  /\ PumpAtRest
  /\ K8sAtRest
SpecRetry == InitRetry /\ [][NextRetry]_vars

\* WebhookMaxRetries from one attempt to one that waits the fourth retry delay
InitSign ==
  /\ cfgMaxRetries \in 1..(MaxRetriesCfg + 2)
  /\ cfgThreshold = DefaultCircuitThreshold
  /\ EngineAtRest
  /\ PumpAtRest
  /\ K8sAtRest
SpecSign == InitSign /\ [][NextSign]_vars

\* WebhookMaxRetries with and without a retry
InitLock ==
  /\ cfgMaxRetries \in 1..MaxRetriesCfg
  /\ cfgThreshold \in 1..MaxThresholdCfg
  /\ EngineAtRest
  /\ PumpAtRest
  /\ K8sAtRest
SpecLock == InitLock /\ [][NextLock]_vars

InitPump ==
  /\ cfgMaxRetries = DefaultMaxRetries
  /\ cfgThreshold = DefaultCircuitThreshold
  /\ EngineAtRest
  /\ PumpAtRest
  /\ K8sAtRest
SpecPump == InitPump /\ [][NextPump]_vars
SpecConvert == InitPump /\ [][NextConvert]_vars

\* WebhookMaxRetries below and above the number of retry delays
InitLive ==
  /\ cfgMaxRetries \in {MaxRetriesCfg, Len(RetryDelays) + 1}
  /\ cfgThreshold = DefaultCircuitThreshold
  /\ EngineAtRest
  /\ PumpAtRest
  /\ K8sAtRest
SpecLive == InitLive /\ [][NextLive]_vars /\ LiveFairness

InitK8s ==
  /\ cfgMaxRetries = DefaultMaxRetries
  /\ cfgThreshold = DefaultCircuitThreshold
  /\ EngineAtRest
  /\ PumpAtRest
  /\ K8sAtRest
SpecK8s == InitK8s /\ [][NextK8s]_vars
SpecDelete == InitK8s /\ [][NextDelete]_vars
SpecWatch == InitK8s /\ [][NextWatch]_vars
SpecName == InitK8s /\ [][NextName]_vars


(***************************************************************************)
(* Properties of the delivery engine, checked under SpecDeliver.           *)
(***************************************************************************)
\* caller c sends a POST in this step
SendsPost(c) == dl'[c].nSent = dl[c].nSent + 1
\* threshold consecutive failures are recorded for url and the timeout has not elapsed
CircuitTripped(url) ==
  /\ circuitStates[url].failures >= cfgThreshold
  /\ circuitStates[url].openUntil > now
\* caller c holds the response of its last POST and has not recorded it yet
Got2xx(c) == dl[c].pc = "record" /\ dl[c].status >= 200 /\ dl[c].status <= 299
Got4xx(c) == dl[c].pc = "record" /\ dl[c].status >= 400 /\ dl[c].status <= 499
Failures(url) == circuitStates[url].failures

\* C1 (as claimed): once WebhookCircuitThreshold consecutive failures are recorded
\* for a URL, no POST is sent to that URL until WebhookCircuitTimeout has elapsed,
\* whichever Deliver call or retry the POST comes from.
C1_NoPostWhileCircuitOpen ==
  [][\A c \in Callers : SendsPost(c) => ~CircuitTripped(dl[c].url)]_vars

\* C2: after a 4xx response the Deliver call sends no further POST, records exactly
\* one failure for the URL and returns the client error as its next step.
C2_ClientErrorEndsDeliver ==
  [][\A c \in Callers : Got4xx(c) =>
        /\ dl'[c].nSent = dl[c].nSent
        /\ dl'[c].pc # "record" =>
              /\ dl'[c].pc = "done"
              /\ dl'[c].ret = "client_error"
              /\ Failures(dl[c].url)' = Failures(dl[c].url) + 1]_vars

\* C2 witness: a call that could have retried returned after one POST answered 4xx
C2_Witness ==
  \E c \in Callers : /\ dl[c].pc = "done"
                      /\ dl[c].ret = "client_error"
                      /\ dl[c].nSent = 1
                      /\ maxRetries >= 2

\* C9 (as claimed): with WebhookMaxRetries = 0 a Deliver call on a closed circuit
\* makes exactly one HTTP attempt.
C9_ZeroRetriesOneAttempt ==
  \A c \in Callers :
    (cfgMaxRetries = 0 /\ dl[c].pc = "done" /\ dl[c].ret # "circuit_open")
      => dl[c].nSent = 1

\* C10 (as claimed): after an attempt to a URL returned 2xx, the URL's failure
\* count is reset and its circuit closed before any later attempt to that URL
\* starts, so no POST to the URL starts while a 2xx for it is still unrecorded.
C10_ResetBeforeAnyLaterAttempt ==
  [][\A c, d \in Callers :
        (Got2xx(c) /\ dl'[d].url = dl[c].url) => ~SendsPost(d)]_vars

\* C10 (amended): the Deliver call that received the 2xx sends no further POST and,
\* as its next step, resets the URL's failure count to 0, clears open_until and
\* returns nil; the reset precedes every later attempt of that caller.
C10_SuccessResetsThenReturns ==
  [][\A c \in Callers : Got2xx(c) =>
        /\ dl'[c].nSent = dl[c].nSent
        /\ dl'[c].pc # "record" =>
              /\ dl'[c].pc = "done"
              /\ dl'[c].ret = "nil"
              /\ circuitStates'[dl[c].url].failures = 0
              /\ circuitStates'[dl[c].url].openUntil = ZeroTime]_vars

\* C10 witness: with a threshold of 1 a failure had opened the circuit of a URL,
\* and a Deliver call then got a 2xx from that URL, reset it and returned nil
C10_Witness ==
  \E c \in Callers : /\ dl[c].pc = "done"
                      /\ dl[c].ret = "nil"
                      /\ cfgThreshold = 1
                      /\ circuitStates[dl[c].url].present
                      /\ circuitStates[dl[c].url].lastFailed >= StartTime
                      /\ circuitStates[dl[c].url].failures = 0
                      /\ circuitStates[dl[c].url].openUntil = ZeroTime

\* C11: a Deliver call made while the circuit of its URL is open returns the
\* circuit-open error at once, has sent no POST, and leaves every circuit state as
\* it was; nothing of the call stays behind to be sent later.
C11_OpenCircuitDropsEvent ==
  [][\A c \in Callers :
        (ncalls' # ncalls /\ dl'[c] # dl[c]
           /\ circuitStates[dl'[c].url].openUntil > now) =>
          /\ dl'[c].pc = "done"
          /\ dl'[c].ret = "circuit_open"
          /\ dl'[c].nSent = 0
          /\ dl'[c].wakeAt = ZeroTime
          /\ circuitStates' = circuitStates]_vars

\* C11 witness: a call was turned away by a circuit that is open still
C11_Witness ==
  \E c \in Callers : /\ dl[c].pc = "done"
                      /\ dl[c].ret = "circuit_open"
                      /\ dl[c].nSent = 0
                      /\ circuitStates[dl[c].url].failures >= cfgThreshold
                      /\ circuitStates[dl[c].url].openUntil > now

\* N of C12: min(WebhookMaxRetries, 5)
AttemptCap == IF cfgMaxRetries < 5 THEN cfgMaxRetries ELSE 5
\* caller c returns from Deliver in this step
Returns(c) == dl'[c].pc = "done" /\ dl'[c] # dl[c]
\* caller c holds the outcome of an attempt that failed without a 4xx status
GotOtherFailure(c) ==
  /\ dl[c].pc = "record"
  /\ dl[c].status < 200 \/ dl[c].status >= 500 \/ (dl[c].status >= 300 /\ dl[c].status < 400)

\* C12 (as claimed): a Deliver call sends at most N = min(WebhookMaxRetries, 5)
\* POSTs, and a call all of whose attempts failed without a 4xx status has made
\* exactly N attempts and returns the delivery-failed error.
C12_ExactlyNWhenAllFail ==
  \A c \in Callers :
    /\ dl[c].nSent <= AttemptCap
    /\ (dl[c].pc = "done" /\ dl[c].ret \notin {"nil", "client_error", "circuit_open"})
         => (dl[c].nSent = AttemptCap /\ dl[c].ret = "exhausted")

\* C12 (amended): a Deliver call sends at most N POSTs and records exactly one
\* failure per failed attempt; a call whose ctx is not done and all of whose
\* attempts failed without a 4xx status returns only after N attempts, with the
\* delivery-failed error; a call that returns the ctx error had its ctx done.
C12_AttemptsCappedAndCounted ==
  [][\A c \in Callers :
        /\ dl'[c].nSent <= AttemptCap
        /\ (GotOtherFailure(c) \/ Got4xx(c)) /\ dl'[c].pc # "record"
             => Failures(dl[c].url)' = Failures(dl[c].url) + 1
        /\ GotOtherFailure(c) /\ dl'[c].pc = "sleep" => dl[c].attempt + 1 < AttemptCap
        /\ GotOtherFailure(c) /\ Returns(c) =>
             /\ dl'[c].ret = "exhausted"
             /\ dl[c].attempt + 1 = AttemptCap
        /\ Returns(c) =>
             \/ dl'[c].ret \in {"nil", "client_error", "circuit_open"}
             \/ dl'[c].ret = "ctx_error" /\ dl[c].ctxDone
             \/ /\ dl'[c].ret = "exhausted"
                /\ ~dl[c].ctxDone => dl'[c].nSent = AttemptCap]_vars

\* C12 witness: with WebhookMaxRetries above 5 a call has failed five times and
\* returned the delivery-failed error
C12_Witness ==
  \E c \in Callers : /\ cfgMaxRetries > 5
                      /\ dl[c].pc = "done"
                      /\ dl[c].ret = "exhausted"
                      /\ dl[c].nSent = 5
                      /\ circuitStates[dl[c].url].failures = 5

\* C13 (as claimed): a Deliver call that finds the circuit of its URL half-open
\* (opened, timeout elapsed) sends exactly one POST as a probe: it never sends a
\* second one.
C13_HalfOpenSendsOneProbe ==
  \A c \in Callers : dl[c].probe => dl[c].nSent <= 1

\* C33: a Deliver call that waits before a retry with its ctx done, the timer
\* not yet fired, takes as its next step the return of the ctx error: no further
\* POST is sent and the circuit state of no URL changes.
C33_CtxDoneEndsTheWait ==
  [][\A c \in Callers :
       WokenByCtx(c) /\ dl'[c] # dl[c] =>
         /\ dl'[c].pc = "done"
         /\ dl'[c].ret = "ctx_error"
         /\ dl'[c].nSent = dl[c].nSent
         /\ circuitStates' = circuitStates]_vars

\* a call that returned the ctx error after two attempts, with two failures
\* recorded for its URL, where three attempts were allowed
C33_Witness ==
  \E c \in Callers :
    /\ dl[c].pc = "done"
    /\ dl[c].ret = "ctx_error"
    /\ dl[c].nSent = 2
    /\ Failures(dl[c].url) = 2
    /\ maxRetries >= 3
    /\ ncalls = 1

\* a call that asks for circuitMu and the step that gives it the lock
Asks(c) == dl[c].pc \in {"check", "record"}
Acquire(c) == RLock(c) \/ Lock(c)

\* C34: a Deliver call holds circuitMu only inside isCircuitOpen, recordFailure
\* and recordSuccess, never while its POST is in flight or while it waits before
\* a retry; so a call that asks for the lock while every other call is at its
\* POST or in its wait, whatever the URL, gets it.
C34_LockOnlyAroundState ==
  /\ \A c \in Callers :
       /\ dl[c].holds = "R" <=> dl[c].pc = "rlocked"
       /\ dl[c].holds = "W" <=> dl[c].pc = "locked"
       /\ dl[c].pc \in {"http", "sleep"} => dl[c].holds = "none"
  /\ \A c \in Callers :
       (/\ Asks(c)
        /\ \A d \in Callers \ {c} : dl[d].pc \in {"http", "sleep"})
         => ENABLED Acquire(c)

\* a call for one URL records its result under the lock while the call for the
\* other URL has its POST in flight
C34_Witness ==
  \E c, d \in Callers :
    /\ dl[c].url # dl[d].url
    /\ dl[d].pc = "http"
    /\ dl[c].pc = "locked"
    /\ dl[c].holds = "W"
    /\ dl[c].attempt = 1

\* C35: a URL whose open_until is set has at least WebhookCircuitThreshold
\* consecutive failures recorded, in every state, and a step changes the failure
\* count of a URL by +1 or resets it to 0.
C35_OpenOnlyAtThreshold ==
  /\ [](\A u \in URLs :
          circuitStates[u].openUntil # ZeroTime => Failures(u) >= cfgThreshold)
  /\ [][\A u \in URLs :
          Failures(u)' \in {Failures(u), Failures(u) + 1, 0}]_vars

\* a circuit that is open with more failures than the threshold: calls that
\* had passed the check before it opened have failed since
C35_Witness ==
  \E u \in URLs :
    /\ isCircuitOpen(u)
    /\ cfgThreshold = 2
    /\ Failures(u) = 3

\* C36: a step that changes the circuit state recorded for a URL is the
\* recordFailure or recordSuccess of a Deliver call for that URL; the state of
\* every other URL stays as it is.
C36_OtherURLsUntouched ==
  [][\A u \in URLs :
       circuitStates'[u] # circuitStates[u] =>
         \E c \in Callers :
           /\ dl[c].url = u
           /\ dl[c].pc \in {"record", "locked"}
           /\ dl'[c] # dl[c]
           /\ \A v \in URLs \ {u} : circuitStates'[v] = circuitStates[v]]_vars

\* a call for one URL has returned after a success that reset the state of its
\* URL, and the circuit of the other URL is still open with its two failures
C36_Witness ==
  \E c \in Callers, u \in URLs :
    /\ dl[c].pc = "done"
    /\ dl[c].ret = "nil"
    /\ dl[c].url # u
    /\ dl[c].nSent = 2
    /\ circuitStates[dl[c].url].present
    /\ isCircuitOpen(u)
    /\ Failures(u) = 2

\* C23: every POST sent with a secret carries X-Forge-Timestamp T, the clock
\* reading of that attempt, and X-Forge-Signature "sha256=" + hex(HMAC-SHA256(
\* secret, T + "." + body)) over the body and the T of that same request, and a
\* POST sent without a secret carries neither header.
C23_SignatureOverSentBodyAndTimestamp ==
  [][\A c \in Callers :
       dl'[c].nSent = dl[c].nSent + 1 =>
         LET q == dl'[c].req
             H == DOMAIN q.headers
         IN /\ dl'[c].pc = "http"
            /\ q.body = Marshal(dl[c].payload)
            /\ IF dl[c].secret # NoSecret
                 THEN /\ {"X-Forge-Timestamp", "X-Forge-Signature"} \subseteq H
                      /\ q.headers["X-Forge-Timestamp"] = FormatInt(now)
                      /\ q.headers["X-Forge-Signature"] =
                           "sha256=" \o HexHmacSha256(dl[c].secret,
                              q.headers["X-Forge-Timestamp"] \o "." \o q.body)
                 ELSE {"X-Forge-Timestamp", "X-Forge-Signature"} \cap H = {}]_vars

\* C23 witness: the fourth attempt of a call with a secret is on the wire, with
\* the timestamp of its own instant
C23_Witness ==
  \E c \in Callers : /\ dl[c].pc = "http"
                     /\ dl[c].secret # NoSecret
                     /\ dl[c].nSent = 4
                     /\ dl[c].req.headers["X-Forge-Timestamp"] = "37"

(***************************************************************************)
(* Properties of the processor and the delivery store, checked under       *)
(* SpecPump.                                                               *)
(***************************************************************************)
\* the Deliver calls of r's pump that have not returned
PumpDeliveries(r) == {d \in inflight : d.req = r /\ ~d.async}
NonDecreasing(s) == \A i \in 1..(Len(s) - 1) : s[i].seq <= s[i + 1].seq

\* C3: the deliveries of one pump are serial and in stream order: at most one
\* Deliver call of the pump is in progress, the pump receives nothing while it is,
\* every response received so far was handed to Deliver, in the order received.
C3_DeliveriesSerialInOrder ==
  \A r \in Reqs :
    /\ Cardinality(PumpDeliveries(r)) <= 1
    /\ PumpDeliveries(r) # {} => rq[r].pc \in {"delivering", "delivering_err"}
    /\ rq[r].pc = "pump" => Len(rq[r].handed) = Len(rq[r].recv)
    /\ Len(rq[r].handed) >= Len(rq[r].recv)
    /\ \A i \in 1..Len(rq[r].recv) :
         /\ rq[r].handed[i].seq = rq[r].recv[i].seq
         /\ rq[r].handed[i].eventType = "agent." \o rq[r].recv[i].payload

\* C3 witness: the first delivery of a pump has returned and its second is in progress
C3_Witness ==
  \E r \in Reqs : /\ rq[r].pc = "delivering"
                  /\ Len(rq[r].recv) = 2
                  /\ Len(rq[r].handed) = 2
                  /\ PumpDeliveries(r) # {}

\* C4 (as claimed): when the stream's seq values are non-decreasing, so are the seq
\* values of the payloads the pump hands to Deliver, STREAM_ERROR payloads included.
C4_HandedSeqNonDecreasing ==
  \A r \in Reqs : NonDecreasing(rq[r].recv) => NonDecreasing(rq[r].handed)

\* C5 (as claimed): a request answered 202 creates exactly one delivery record.
C5_OneRecordPerAccepted ==
  \A r \in Reqs :
    (rq[r].resp = 202 /\ rq[r].pc # "accepted") => rq[r].created = 1

\* C6 (as claimed): a delivery record whose status is completed or failed never
\* changes status again.
C6_TerminalStatusNeverChanges ==
  [][\A id \in RIDs :
        store[id].status \in {"completed", "failed"}
          => store'[id].status = store[id].status]_vars

\* the last payload r's pump handed to Deliver bears is_final
LastHandedFinal(r) ==
  rq[r].handed # <<>> /\ rq[r].handed[Len(rq[r].handed)].isFinal
\* r is the only request that carries its request id, and its insert made the row
OwnsRecord(r) ==
  /\ rq[r].created = 1
  /\ \A q \in Reqs \ {r} : rq[q].rid # rq[r].rid

\* C14 (as claimed): a record is completed only if a request with its id ended on
\* a clean EOF, or on a payload bearing is_final that the webhook acknowledged.
C14_CompletedOnlyIfFinalDelivered ==
  \A id \in RIDs :
    store[id].status = "completed" =>
      \E r \in Reqs : /\ rq[r].rid = id
                      /\ rq[r].pc = "done"
                      /\ rq[r].ret = "nil"
                      /\ LastHandedFinal(r) => rq[r].lastRet = "nil"

\* C15 (as claimed): when the delivery of an event was answered 4xx, the request's
\* record is marked failed, at the latest when the pump ends.
C15_ClientErrorMarksFailed ==
  \A r \in Reqs :
    (rq[r].pc = "done" /\ rq[r].lastRet = "client_error" /\ OwnsRecord(r))
      => store[rq[r].rid].status = "failed"

\* C16 (as claimed): when the agent cannot be reached after the 202, the request's
\* record ends with status failed and seq 0.
C16_UnreachableMarksFailed ==
  \A r \in Reqs :
    (rq[r].resp = 202 /\ rq[r].pc = "done" /\ rq[r].ret = "connect_error"
       /\ OwnsRecord(r) /\ ~\E d \in inflight : d.req = r)
      => (store[rq[r].rid].status = "failed" /\ store[rq[r].rid].seq = 0)

\* C20: the handler answers 202 before the processor has done anything, and the
\* processing it started is never cancelled: its ctx is never done, it never
\* ends on the ctx error.
C20_ProcessingNotBoundToRequest ==
  \A r \in Reqs :
    rq[r].resp = 202 =>
      /\ ~rq[r].ctxDone
      /\ rq[r].ret # "ctx_error"
      /\ rq[r].pc = "accepted" => (rq[r].created = 0 /\ rq[r].nReq = 0 /\ rq[r].recv = <<>>)

\* C20 witness: a request answered 202 was processed to the end of its stream
C20_Witness ==
  \E r \in Reqs : /\ rq[r].resp = 202
                  /\ rq[r].pc = "done"
                  /\ rq[r].ret = "nil"
                  /\ rq[r].nReq = 1
                  /\ Len(rq[r].handed) = 2
                  /\ store[rq[r].rid].status = "completed"

\* the requests whose insert made a row with this request id
Inserters(id) == {r \in Reqs : rq[r].rid = id /\ rq[r].created >= 1}

\* C21: a CreateDeliveryRecord for a request id that has a record inserts nothing
\* and leaves the store as it is, and at most one record was ever inserted per
\* request id.
C21_OneRecordPerRequestID ==
  [][/\ \A r \in Reqs :
          (/\ rq[r].pc = "accepted"
           /\ rq'[r].pc = "connect"
           /\ store[rq[r].rid].present) =>
             (store' = store /\ rq'[r].created = rq[r].created)
     /\ \A id \in RIDs :
          /\ Cardinality(Inserters(id)') <= 1
          /\ \A r \in Inserters(id)' : rq'[r].created = 1
          /\ store'[id].present <=> Inserters(id)' # {}]_vars

\* C21 witness: a second request with the id of a record has made its
\* CreateDeliveryRecord call, which inserted nothing, and the record is completed
C21_Witness ==
  \E r, q \in Reqs : /\ r # q
                     /\ rq[r].rid = rq[q].rid
                     /\ rq[r].created = 1
                     /\ rq[q].pc = "connect"
                     /\ rq[q].created = 0
                     /\ ~rq[q].ctxDone
                     /\ store[rq[q].rid].status = "completed"

\* C24: the payload made from a response bears is_final exactly when the response
\* carries an Error, a Complete, an Event of type session.completed, session.error
\* or message.completed, or no payload at all, which becomes an agent.error.
C24_FinalExactlyOnCompletion ==
  \A r \in Reqs : \A i \in 1..Len(rq[r].recv) :
    LET resp == rq[r].recv[i]
        payload == rq[r].handed[i]
    IN /\ payload.isFinal <=>
            \/ resp.payload \in {"error", "complete", "none"}
            \/ /\ resp.payload = "event"
               /\ resp.eventType \in
                    {"session.completed", "session.error", "message.completed"}
       /\ resp.payload = "none" => payload.eventType = "agent.error"

\* C24 witness: a pump converted an Event of another type, which is not final,
\* and then an Event of type message.completed, which is
C24_Witness ==
  \E r \in Reqs : /\ Len(rq[r].recv) = 2
                  /\ rq[r].recv[1].payload = "event"
                  /\ rq[r].recv[1].eventType = "session.idle"
                  /\ ~rq[r].handed[1].isFinal
                  /\ rq[r].recv[2].eventType = "message.completed"
                  /\ rq[r].handed[2].isFinal

\* the Deliver call for a final payload returns to r's pump in this step
FinalDeliverReturns(r) ==
  /\ rq[r].pc = "delivering"
  /\ LastHandedFinal(r)
  /\ rq'[r].pc # "delivering"
\* r's pump ends with success in this step, and has ended for good
EndsWithSuccess(r) ==
  /\ rq'[r].pc = "done"
  /\ rq'[r].ret = "nil"
  /\ rq'[r].recv = rq[r].recv
  /\ rq'[r].handed = rq[r].handed
Ended(r) ==
  rq[r].pc = "done" => (rq'[r].pc = "done" /\ rq'[r].recv = rq[r].recv
                          /\ rq'[r].handed = rq[r].handed)

\* C25 (as claimed): when Deliver has returned for a payload bearing is_final, the
\* pump marks the record completed and returns success, and receives and
\* delivers nothing more.
C25_FinalMarksCompleted ==
  [][\A r \in Reqs :
       /\ FinalDeliverReturns(r) =>
            (EndsWithSuccess(r) /\ store'[rq[r].rid].status = "completed")
       /\ Ended(r)]_vars

\* the payload the pump makes of a stream error
StreamErrorPayload == ErrorToPayload(0, "STREAM_ERROR")
\* stream.Receive returns a non-EOF error to r's pump in this step
ReceiveFails(r) == rq[r].pc = "pump" /\ rq'[r].pc = "delivering_err"
\* ... and the one delivery of the STREAM_ERROR payload begins
OneErrorDelivery(r) ==
  /\ rq'[r].handed = Append(rq[r].handed, StreamErrorPayload)
  /\ rq'[r].recv = rq[r].recv
  /\ PumpDeliveries(r) = {}
  /\ Cardinality(PumpDeliveries(r)') = 1
\* the delivery of the STREAM_ERROR payload returns in this step
ErrorDeliverReturns(r) == rq[r].pc = "delivering_err" /\ rq'[r].pc # "delivering_err"
EndsWithStreamError(r) ==
  /\ rq'[r].pc = "done"
  /\ rq'[r].ret = "stream_error"
  /\ rq'[r].recv = rq[r].recv
  /\ rq'[r].handed = rq[r].handed
  /\ PumpDeliveries(r)' = {}

\* C26 (as claimed): on a non-EOF error of stream.Receive the pump makes one
\* delivery of a STREAM_ERROR agent.error payload, then marks the record failed
\* and returns the error, and receives nothing more.
C26_StreamErrorMarksFailed ==
  [][\A r \in Reqs :
       /\ ReceiveFails(r) => OneErrorDelivery(r)
       /\ ErrorDeliverReturns(r) =>
            (EndsWithStreamError(r) /\ store'[rq[r].rid].status = "failed")
       /\ Ended(r)]_vars

\* C27 (as claimed): a pump that ended on the error of its cancelled ctx has its
\* request's record marked failed.
C27_CtxErrorMarksFailed ==
  \A r \in Reqs :
    (rq[r].pc = "done" /\ rq[r].ret = "ctx_error" /\ OwnsRecord(r))
      => store[rq[r].rid].status = "failed"

\* C28: when Deliver returns for a payload that is not final, with or without an
\* error, the pump goes on to its next Receive: it does not end, and the record is
\* left as it is.
C28_DeliverErrorDoesNotEndPump ==
  [][\A r \in Reqs :
       (/\ rq[r].pc = "delivering"
        /\ ~LastHandedFinal(r)
        /\ rq'[r].pc # "delivering") =>
          /\ rq'[r].pc = "pump"
          /\ rq'[r].ret = "none"
          /\ store' = store]_vars

\* C28 witness: the Deliver call for a pump's first response returned an error,
\* and its second response was received and handed to Deliver
C28_Witness ==
  \E r \in Reqs : /\ rq[r].pc = "delivering"
                  /\ rq[r].lastRet \in {"client_error", "error"}
                  /\ Len(rq[r].recv) = 2
                  /\ Len(rq[r].handed) = 2
                  /\ ~rq[r].handed[1].isFinal

\* the pump of r is running, or has run
Streamed(r) ==
  \/ rq[r].pc \in {"pump", "delivering", "delivering_err"}
  \/ rq[r].pc = "done" /\ rq[r].ret \in {"nil", "stream_error", "ctx_error"}

\* C29: a call sends at most one AgentRequest: one, with the outbound direction
\* half-closed, before anything is received; none when the agent's address
\* cannot be resolved, and then one AGENT_UNREACHABLE payload is handed to
\* DeliverAsync and the call returns the error.
C29_OneAgentRequest ==
  \A r \in Reqs :
    /\ rq[r].nReq <= 1
    /\ (Streamed(r) \/ rq[r].recv # <<>>) => (rq[r].nReq = 1 /\ rq[r].closed)
    /\ rq[r].ret = "connect_error" =>
         /\ rq[r].pc = "done"
         /\ rq[r].nReq = 0
         /\ rq[r].recv = <<>>
         /\ rq[r].handed = <<>>
         /\ rq[r].async = <<ErrorToPayload(0, "AGENT_UNREACHABLE")>>

\* C29 witness: one call found no address and returned, another has sent its
\* request and received a response
C29_Witness ==
  \E r, q \in Reqs : /\ rq[r].ret = "connect_error"
                     /\ Len(rq[r].async) = 1
                     /\ rq[q].nReq = 1
                     /\ rq[q].closed
                     /\ Len(rq[q].recv) = 1

\* the insert of this call has failed
InsertFailed(r) ==
  rq[r].pc \notin {"none", "rejected", "accepted"} /\ rq[r].created = 0

\* the call of the processor goes its way: it resolves the agent and, unless
\* that or the send fails (one error payload to DeliverAsync), has sent its one
\* request, and every response received from the stream has been handed to
\* Deliver as its payload, in order, with at most the STREAM_ERROR payload after
\* them
Proceeds(r) ==
  /\ rq[r].pc = "connect" => rq[r].ret = "none" /\ rq[r].nReq = 0
  /\ rq[r].pc \in {"pump", "delivering", "delivering_err"} =>
       rq[r].nReq = 1 /\ rq[r].closed /\ rq[r].async = <<>>
  /\ rq[r].pc = "done" =>
       \/ rq[r].nReq = 1 /\ rq[r].async = <<>>
            /\ rq[r].ret \in {"nil", "ctx_error", "stream_error"}
       \/ rq[r].nReq = 0 /\ Len(rq[r].async) = 1 /\ rq[r].handed = <<>>
            /\ rq[r].ret \in {"connect_error", "send_error"}
  /\ Len(rq[r].handed) >= Len(rq[r].recv)
  /\ \A i \in 1..Len(rq[r].recv) :
       rq[r].handed[i] = AgentResponseToPayload(rq[r].recv[i])
  /\ \A i \in (Len(rq[r].recv) + 1)..Len(rq[r].handed) :
       /\ i = Len(rq[r].recv) + 1
       /\ rq[r].handed[i] = StreamErrorPayload
       /\ rq[r].pc = "delivering_err" \/ rq[r].ret = "stream_error"

\* C32: a call whose CreateDeliveryRecord failed still resolves the agent, sends
\* its request and hands the payload of every response of the stream to the
\* webhook delivery, as a call whose insert succeeded does.
C32_FailedInsertDoesNotAbort ==
  \A r \in Reqs :
    rq[r].pc \notin {"none", "rejected", "accepted"} => Proceeds(r)

\* a call whose insert failed on the request id of another call's record has
\* sent its request and handed two payloads to Deliver, the second one final
C32_Witness ==
  \E r \in Reqs :
    /\ InsertFailed(r)
    /\ ~rq[r].ctxDone
    /\ store[rq[r].rid].present
    /\ rq[r].nReq = 1
    /\ Len(rq[r].recv) = 2
    /\ Len(rq[r].handed) = 2
    /\ rq[r].handed[2].isFinal
    /\ rq[r].pc = "done"
    /\ rq[r].ret = "nil"

\* r's pump ends in this step
PumpEnds(r) ==
  rq[r].pc \in {"pump", "delivering", "delivering_err"} /\ rq'[r].pc = "done"

\* C39 (as claimed): the status of a record becomes failed only in the step in
\* which a pump ends on a non-EOF error of stream.Receive; a pump that ends on a
\* final payload or on EOF leaves the record of its request completed, and a pump
\* that ends another way leaves the record as it is.
C39_StatusFollowsPumpExit ==
  [][/\ \A id \in RIDs :
          (store'[id].status = "failed" /\ store[id].status # "failed") =>
            \E r \in Reqs :
              rq[r].rid = id /\ PumpEnds(r) /\ rq'[r].ret = "stream_error"
     /\ \A r \in Reqs :
          PumpEnds(r) =>
            /\ (rq'[r].ret = "nil" /\ store[rq[r].rid].present) =>
                 store'[rq[r].rid].status = "completed"
            /\ rq'[r].ret \notin {"nil", "stream_error"} => store' = store]_vars

\* C40: a Deliver call makes at most min(WebhookMaxRetries, 5) attempts and,
\* every HTTP attempt returning, returns; and a pump that has received a final
\* payload or a stream error (EOF ends it at once) ends after the Deliver call for
\* it.
C40_DeliverAndPumpTerminate ==
  /\ [](\A c \in Callers :
          /\ dl[c].nSent <= AttemptCap
          /\ dl[c].attempt = 0 \/ dl[c].attempt < AttemptCap)
  /\ \A c \in Callers :
       (dl[c].pc \notin {"idle", "done"}) ~> (dl[c].pc = "done")
  /\ \A r \in Reqs :
       ((rq[r].pc = "delivering" /\ LastHandedFinal(r)) \/ rq[r].pc = "delivering_err")
         ~> (rq[r].pc = "done")

\* the pump has ended after a final payload whose Deliver call gave up after
\* five failed attempts, six being configured
C40_Witness ==
  /\ rq[LiveReq].pc = "done"
  /\ rq[LiveReq].ret = "nil"
  /\ LastHandedFinal(LiveReq)
  /\ cfgMaxRetries = 6
  /\ dl[LiveCaller].ret = "exhausted"
  /\ dl[LiveCaller].nSent = 5
  /\ ncalls = 1

\* C22 (as claimed): the seq of a delivery record never decreases.
C22_RecordSeqNeverDecreases ==
  [][\A id \in RIDs : store'[id].seq >= store[id].seq]_vars

(***************************************************************************)
(* Properties of the pod lifecycle, checked under SpecK8s and SpecDelete.  *)
(***************************************************************************)
\* C7 (as claimed): a graceful DeleteAgent that made the Shutdown RPC, whatever
\* became of the RPC, and that finds the pod present when it reaches ClosePod,
\* sends the deletion and returns success.
C7_GracefulDeleteAlwaysDeletes ==
  (da.pc = "done" /\ da.graceful /\ da.shutdown \in ShutdownOutcomes /\ da.podAtClose)
    => (da.issued /\ da.ret = "nil")

\* C8: a pod that WaitForPodReady returns without error has phase Running, a pod
\* IP, and no container status that is not ready, whether it comes from the
\* initial snapshot or from a watch event.
C8_ReturnedPodIsReady ==
  \A w \in Waiters :
    (wfr[w].pc = "done" /\ wfr[w].err = "nil") =>
      /\ wfr[w].via \in {"snapshot", "watch"}
      /\ wfr[w].pod.exists
      /\ wfr[w].pod.phase = "Running"
      /\ wfr[w].pod.ip # ""
      /\ \A i \in 1..Len(wfr[w].pod.cs) : wfr[w].pod.cs[i] = TRUE

\* C8 witness: a caller got a pod with a container status from a watch event and,
\* on its next call, from the initial snapshot
C8_Witness ==
  \E w \in Waiters : /\ wfr[w].pc = "done"
                     /\ wfr[w].err = "nil"
                     /\ wfr[w].via = "snapshot"
                     /\ wfr[w].vias = {"snapshot", "watch"}
                     /\ Len(wfr[w].pod.cs) >= 1

\* C17: a CreateAgent call whose CreatePod succeeded and whose WaitForPodReady
\* failed (the pod was deleted, the watch broke, or the caller's context was done)
\* has sent the deletion of the pod, on a context that the caller's cancellation
\* does not end, when it returns, and it returns the error and no pod.
C17_FailedWaitCleansUp ==
  \A w \in Waiters :
    (wfr[w].agent = "failed" /\ wfr[w].err # "create_failed") =>
      /\ wfr[w].cleanup = "issued"
      /\ wfr[w].err \notin {"nil", "none"}
      /\ wfr[w].pod = NoPod

\* C17 witness: the caller's context ended during the wait, CreateAgent has
\* returned, and its deletion has removed the pod
C17_Witness ==
  \E w \in Waiters : /\ wfr[w].agent = "failed"
                     /\ wfr[w].err = "ctx_done"
                     /\ wfr[w].cleanup = "issued"
                     /\ ~cluster.pod.exists

\* C38: a CreateAgent call whose CreatePod fails, the name being taken, returns
\* the error and leaves the cluster as it is: no ClosePod is issued. A call issues
\* its ClosePod only after its own CreatePod has succeeded.
C38_FailedCreateDeletesNothing ==
  [][\A w \in Waiters :
       /\ (wfr'[w].calls = wfr[w].calls + 1 /\ wfr'[w].agent # "none"
              /\ cluster.pod.exists) =>
            /\ cluster' = cluster
            /\ wfr'[w].pc = "done"
            /\ wfr'[w].err = "create_failed"
            /\ wfr'[w].agent = "failed"
            /\ wfr'[w].cleanup = "none"
       /\ (wfr'[w].cleanup # "none" /\ wfr[w].cleanup = "none") =>
            wfr[w].agent = "wait" /\ wfr'[w].err # "create_failed"]_vars

\* a CreateAgent call has failed on a name that was taken, and the pod that
\* another caller had created is still there
C38_Witness ==
  \E w \in Waiters :
    /\ wfr[w].agent = "failed"
    /\ wfr[w].err = "create_failed"
    /\ wfr[w].cleanup = "none"
    /\ wfr[w].calls = 1
    /\ cluster.pod.exists
    /\ cluster.changes = 1

\* C18: once the next event a waiting WaitForPodReady has to consume is a Deleted
\* event, the call does not pass over it, and it returns on it with an error and
\* no pod, whatever events follow it.
C18_DeletedEndsTheWait ==
  [][\A w \in Waiters :
       (/\ wfr[w].pc = "watching"
        /\ wfr[w].events # <<>>
        /\ Head(wfr[w].events).type = "Deleted") =>
          \/ /\ wfr'[w].pc = "watching"
             /\ wfr'[w].events # <<>>
             /\ Head(wfr'[w].events) = Head(wfr[w].events)
          \/ /\ wfr'[w].pc = "done"
             /\ wfr'[w].err \notin {"nil", "none"}
             /\ wfr'[w].pod = NoPod]_vars

\* C18 witness: a call returned the error of a Deleted event while an event of a
\* ready pod was waiting behind it
C18_Witness ==
  \E w \in Waiters : /\ wfr[w].pc = "done"
                     /\ wfr[w].err = "deleted"
                     /\ wfr[w].unread
                     /\ wfr[w].pod = NoPod

\* C19 (as claimed): a DeleteAgent without graceful for a pod that is not in the
\* cluster when the deletion is sent returns without error.
C19_DeleteOfAbsentPodSucceeds ==
  (da.pc = "done" /\ ~da.graceful /\ ~da.podAtClose /\ da.issued) => da.ret = "nil"

\* C19 (amended): a deletion sent for a pod that is not in the cluster returns
\* the cluster's not-found error and leaves the cluster's pods as they were.
C19_DeleteOfAbsentPodNotFound ==
  [][(/\ da.pc = "close"
      /\ da'.pc = "done"
      /\ ~cluster.pod.exists
      /\ da'.issued) =>
        /\ da'.ret = "not_found"
        /\ cluster'.pod = cluster.pod]_vars

\* C19 witness: a DeleteAgent without graceful for a pod that had been created
\* and deleted before returned not-found
C19_Witness ==
  /\ da.pc = "done"
  /\ ~da.graceful
  /\ ~da.podAtClose
  /\ da.issued
  /\ da.ret = "not_found"
  /\ cluster.changes >= 2
  /\ ~cluster.pod.exists

\* C30 (as claimed): once RestartPod has returned, the goroutine of its WatchPod
\* has terminated, with its channel closed and its watcher stopped, or it can
\* still take a step towards that.
C30_WatchGoroutineEnds ==
  rp.pc = "done" =>
    \/ rp.gpc = "none"
    \/ rp.gpc = "terminated" /\ rp.chClosed /\ rp.watcher # "open"
    \/ ENABLED GoroutineStep

\* C31: RestartPod calls CreatePod only after its ClosePod and, after that, a
\* Deleted event received from the watch; a call that returns the error of the
\* watch setup, of the delete or of the wait has made no CreatePod call.
C31_CreateOnlyAfterDeleteAndDeleted ==
  /\ \A i \in 1..Len(rp.log) :
       rp.log[i] = "CreatePod" =>
         \E j, k \in 1..(i - 1) :
           j < k /\ rp.log[j] = "ClosePod" /\ rp.log[k] = "Deleted"
  /\ rp.ret \in {"watch_init_error", "close_error", "watch_error"} =>
       \A i \in 1..Len(rp.log) : rp.log[i] # "CreatePod"
  /\ rp.ret = "nil" => rp.log[Len(rp.log)] = "CreatePod"

\* a restart that received another event before the Deleted one, and created
\* the pod
C31_Witness ==
  /\ rp.pc = "done"
  /\ rp.ret = "nil"
  /\ rp.log = <<"ClosePod", "Modified", "Deleted", "CreatePod">>
  /\ cluster.pod.exists

\* C37 (as claimed): the pod that GetPod, ClosePod and GetPodAddress find for a
\* PodID of non-empty ids is the pod of that PodID, never the pod of another
\* pair: two different pairs never have the same workload name.
C37_NameSeparatesPairs ==
  \A p \in PodIDs : GetPod(p) \in {NoPodID, p}

=============================================================================
